---- MODULE Spec2Model ----
(***************************************************************************)
(* A model of the data-availability committee member of starkex-resources: *)
(* the committee batch loop (committee/committee/committee.py), the        *)
(* gateway client it talks to, the key-value stores it persists to and the *)
(* immutable Merkle tree it recomputes roots with.                         *)
(*                                                                         *)
(* Digests are modelled as terms of a free algebra: to_bytes(n) is the     *)
(* one-element tuple <<n>> and hash_func(a, b) is the pair <<a, b>>, so    *)
(* the hash is collision free and a digest never equals one of its inputs. *)
(***************************************************************************)
EXTENDS Integers, Sequences, FiniteSets, TLC

(***************************************************************************)
(* Bounds of the model.                                                    *)
(***************************************************************************)
\* The gateway holds the batches 0 .. MaxBatch - 1; later ids answer "no update".
MaxBatch == 2
\* At most MaxDisruptions disruptions happen in an execution: a step after a
\* successful derivation that fails (a store error, a gateway error, a
\* signature that is not acknowledged), or a crash and restart of the process.
MaxDisruptions == 1
\* A derivation whose sequence number would exceed MaxSeq is not explored.
MaxSeq == 1
\* The configured tree heights (config keys VAULTS_MERKLE_HEIGHT, ORDERS_MERKLE_HEIGHT).
VAULTS_MERKLE_HEIGHT == 1
ORDERS_MERKLE_HEIGHT == 1
\* A state update changes at most MaxMods leaves of each tree.
MaxMods == 1
\* The Merkle tree on its own: trees of height 0 .. TreeHeight, leaves with
\* values 0 .. TreeMaxValue, at most TreeMaxBatches updates of at most
\* TreeMaxMods modifications each.
TreeHeight == 2
TreeMaxValue == 1
TreeMaxBatches == 2
TreeMaxMods == 3
\* An update and the update before it carry at most TreeMaxPairMods
\* modifications together.
TreeMaxPairMods == 4

\* Runs of the deferred-write scope: scopes opened one after the other, trees
\* built inside one scope, modifications of one update inside a scope.
MaxScopes == 2
MaxScopeRoots == 2
ScopeMaxMods == 2

\* Runs of one concurrent update: modifications of the tree it starts from,
\* and modifications of the update.
RaceBaseMods == 1
RaceMaxMods == 2

\* Runs of the balances tool: vault entries it starts with, entries added or
\* removed afterwards, and the largest key, token and amount of an entry.
MaxVaults == 2
MaxEdits == 2
MaxVaultField == 2
\* CachedStorage on its own: the max_size of its LRUCache, the number of keys
\* and of values it is called with.
CacheMaxSize == 2
CacheKeys == 3
CacheValues == 2

(***************************************************************************)
(* Digests, hashing and facts.                                             *)
(***************************************************************************)
\* int.to_bytes(HASH_BYTES, 'big')
to_bytes(n) == <<n>>

\* The node hash H(a, b) (pedersen_hash_func), collision free.
hash_func(a, b) == <<a, b>>

\* bytes.hex() / bytes.fromhex(): the hex text of a digest and back.
hex(d) == [hex |-> d]
fromhex(h) == h.hex

\* VaultState.__post_init__: a zero balance normalises key and token to 0.
VaultStateFact(stark_key, token, balance) ==
    IF balance = 0
    THEN [cls |-> "vault_state", stark_key |-> 0, token |-> 0, balance |-> 0]
    ELSE [cls |-> "vault_state", stark_key |-> stark_key, token |-> token,
          balance |-> balance]

\* VaultState.empty()
VaultStateFact_empty == VaultStateFact(0, 0, 0)

\* OrderStateFact(fulfilled_amount)
OrderStateFact(fulfilled_amount) ==
    [cls |-> "order_state", fulfilled_amount |-> fulfilled_amount]

\* MerkleNodeFact(left_node, right_node)
MerkleNodeFact(left_node, right_node) ==
    [cls |-> "merkle_node", left_node |-> left_node, right_node |-> right_node]

\* Fact_hash giving every order leaf the digest of the empty one.
Fact_hash_constant_leaf(fact) ==
    IF fact.cls = "vault_state"
    THEN hash_func(hash_func(to_bytes(fact.stark_key), to_bytes(fact.token)),
                   to_bytes(fact.balance))
    ELSE IF fact.cls = "order_state"
    THEN to_bytes(0)
    ELSE hash_func(fact.left_node, fact.right_node)

\* Fact._hash of the three fact families.
Fact_hash(fact) ==
    IF fact.cls = "vault_state"
    THEN hash_func(hash_func(to_bytes(fact.stark_key), to_bytes(fact.token)),
                   to_bytes(fact.balance))
    ELSE IF fact.cls = "order_state"
    THEN to_bytes(fact.fulfilled_amount)
    ELSE hash_func(fact.left_node, fact.right_node)

\* DBObject.db_key: prefix ':' suffix.
db_key(prefix, suffix) == <<prefix, suffix>>

\* serialize() of a fact: the stored payload (left ++ right for a node, the
\* JSON text of the fields for a leaf).
serialize(fact) ==
    IF fact.cls = "merkle_node"
    THEN <<fact.left_node, fact.right_node>>
    ELSE IF fact.cls = "vault_state"
    THEN [stark_key |-> fact.stark_key, token |-> fact.token, balance |-> fact.balance]
    ELSE [fulfilled_amount |-> fact.fulfilled_amount]

(***************************************************************************)
(* Storage: a key -> value mapping (DictStorage / MockStorage).            *)
(***************************************************************************)
EmptyStorage == [k \in {} |-> 0]

set_value(db, key, value) == (key :> value) @@ db

has_value(db, key) == key \in DOMAIN db

get_value(db, key) == db[key]

\* Storage.mset: every update lands (updates is itself a key -> value mapping).
mset(db, updates) == updates @@ db

\* set_fact storing a node under its left child's digest instead of its own.
set_fact_keyed_by_left_child(fact) ==
    db_key(fact.cls, IF fact.cls = "merkle_node"
                     THEN fact.left_node
                     ELSE Fact_hash(fact)) :> serialize(fact)

\* Fact.set_fact: the write it performs, as a one-entry mapping.
set_fact(fact) == db_key(fact.cls, Fact_hash(fact)) :> serialize(fact)

(***************************************************************************)
(* MerkleTree.  A tree is its root digest and height; operations read the  *)
(* store db and return the facts they write (writes), which the caller     *)
(* applies to the store or to the deferred-write cache.                    *)
(***************************************************************************)
Pow2(n) == 2 ^ n

\* MerkleTree.get_children: the node fact under merkle_node:root, if stored.
has_children(db, root) == has_value(db, db_key("merkle_node", root))

get_children(db, root) ==
    LET data == get_value(db, db_key("merkle_node", root))
    IN  [left |-> data[1], right |-> data[2]]

\* combine returning the node's digest without writing its fact.
combine_unwritten(left, right) ==
    LET root_fact == MerkleNodeFact(left, right)
    IN  [root |-> Fact_hash(root_fact), writes |-> EmptyStorage]

\* combine taking the left subtree for both children.
combine_left_twice(left, right) ==
    LET root_fact == MerkleNodeFact(left, left)
    IN  [root |-> Fact_hash(root_fact), writes |-> set_fact(root_fact)]

\* MerkleTree.combine: the node over two subtrees and the fact it writes.
combine(left, right) ==
    LET root_fact == MerkleNodeFact(left, right)
    IN  [root |-> Fact_hash(root_fact), writes |-> set_fact(root_fact)]

\* MerkleTree.empty_tree
RECURSIVE empty_tree(_, _)
empty_tree(height, leaf_fact) ==
    IF height = 0
    THEN [root |-> Fact_hash(leaf_fact), writes |-> set_fact(leaf_fact)]
    ELSE LET sub == empty_tree(height - 1, leaf_fact)
             top == combine(sub.root, sub.root)
         IN  [root |-> top.root, writes |-> top.writes @@ sub.writes]

\* left_modifications stopping at the first modification of the other half.
RECURSIVE left_modifications_prefix(_, _)
left_modifications_prefix(modifications, mid) ==
    IF Len(modifications) = 0 \/ modifications[1][1] >= mid
    THEN <<>>
    ELSE <<modifications[1]>> \o left_modifications_prefix(Tail(modifications), mid)

\* The modifications of one half, re-indexed (list comprehensions of update).
left_modifications(modifications, mid) ==
    SelectSeq(modifications, LAMBDA m : m[1] < mid)

right_modifications(modifications, mid) ==
    LET sel == SelectSeq(modifications, LAMBDA m : m[1] >= mid)
    IN  [j \in 1..Len(sel) |-> <<sel[j][1] - mid, sel[j][2]>>]

\* update taking, at a leaf, the first of its modifications, not the last.
RECURSIVE update_first_wins(_, _, _, _)
update_first_wins(db, root, height, modifications) ==
    IF Len(modifications) = 0
    THEN [ok |-> TRUE, root |-> root, writes |-> EmptyStorage]
    ELSE IF height = 0
    THEN LET m == modifications[1]
         IN  IF m[1] # 0
             THEN [ok |-> FALSE, root |-> root, writes |-> EmptyStorage]
             ELSE [ok |-> TRUE, root |-> Fact_hash(m[2]), writes |-> set_fact(m[2])]
    ELSE IF ~has_children(db, root)
    THEN [ok |-> FALSE, root |-> root, writes |-> EmptyStorage]
    ELSE LET children == get_children(db, root)
             mid == Pow2(height - 1)
             lm == left_modifications(modifications, mid)
             rm == right_modifications(modifications, mid)
             l == update_first_wins(db, children.left, height - 1, lm)
             r == update_first_wins(db, children.right, height - 1, rm)
             top == combine(l.root, r.root)
         IN  IF l.ok /\ r.ok
             THEN [ok |-> TRUE, root |-> top.root,
                   writes |-> top.writes @@ l.writes @@ r.writes]
             ELSE [ok |-> FALSE, root |-> root, writes |-> l.writes @@ r.writes]

\* MerkleTree.update: ok is FALSE when an assertion fails ('Missing node in
\* db', or a leaf index that is not 0 at height 0).
RECURSIVE update(_, _, _, _)
update(db, root, height, modifications) ==
    IF Len(modifications) = 0
    THEN [ok |-> TRUE, root |-> root, writes |-> EmptyStorage]
    ELSE IF height = 0
    THEN LET m == modifications[Len(modifications)]
         IN  IF m[1] # 0
             THEN [ok |-> FALSE, root |-> root, writes |-> EmptyStorage]
             ELSE [ok |-> TRUE, root |-> Fact_hash(m[2]), writes |-> set_fact(m[2])]
    ELSE IF ~has_children(db, root)
    THEN [ok |-> FALSE, root |-> root, writes |-> EmptyStorage]
    ELSE LET children == get_children(db, root)
             mid == Pow2(height - 1)
             lm == left_modifications(modifications, mid)
             rm == right_modifications(modifications, mid)
             l == update(db, children.left, height - 1, lm)
             r == update(db, children.right, height - 1, rm)
             top == combine(l.root, r.root)
         IN  IF l.ok /\ r.ok
             THEN [ok |-> TRUE, root |-> top.root,
                   writes |-> top.writes @@ l.writes @@ r.writes]
             ELSE [ok |-> FALSE, root |-> root, writes |-> l.writes @@ r.writes]

\* The keys MerkleTree.update reads: get_children of every node it descends
\* into with a non-empty modification list.
RECURSIVE update_reads(_, _, _, _)
update_reads(db, root, height, modifications) ==
    IF Len(modifications) = 0 \/ height = 0
    THEN {}
    ELSE {db_key("merkle_node", root)} \cup
         IF ~has_children(db, root)
         THEN {}
         ELSE LET children == get_children(db, root)
                  mid == Pow2(height - 1)
              IN  update_reads(db, children.left, height - 1,
                               left_modifications(modifications, mid))
                  \cup update_reads(db, children.right, height - 1,
                                    right_modifications(modifications, mid))

\* The keys MerkleTree.get_leaves reads for all the leaves of a tree: every
\* node and every leaf.
RECURSIVE get_leaves_reads(_, _, _, _)
get_leaves_reads(db, root, height, fact_cls) ==
    IF height = 0
    THEN {db_key(fact_cls, root)}
    ELSE {db_key("merkle_node", root)} \cup
         IF ~has_children(db, root)
         THEN {}
         ELSE get_leaves_reads(db, get_children(db, root).left, height - 1, fact_cls)
              \cup get_leaves_reads(db, get_children(db, root).right, height - 1,
                                    fact_cls)

\* deserialize() of a stored payload into a fact of class cls.
deserialize(cls, data) ==
    IF cls = "merkle_node"
    THEN MerkleNodeFact(data[1], data[2])
    ELSE IF cls = "vault_state"
    THEN VaultStateFact(data.stark_key, data.token, data.balance)
    ELSE OrderStateFact(data.fulfilled_amount)

\* DBObject.get: the fact stored under cls ':' suffix, as a sequence that is
\* empty when the key is absent (None).
Fact_get(db, cls, suffix) ==
    IF has_value(db, db_key(cls, suffix))
    THEN <<deserialize(cls, get_value(db, db_key(cls, suffix)))>>
    ELSE <<>>

\* MerkleTree.get_leaves: the leaves at the given indices, as a mapping
\* index -> fact; ok is FALSE when an assertion fails ('Missing leaf in db',
\* 'Missing node in db').
RECURSIVE get_leaves(_, _, _, _, _)
get_leaves(db, root, height, indices, fact_cls) ==
    IF Len(indices) = 0
    THEN [ok |-> TRUE, leaves |-> EmptyStorage]
    ELSE IF height = 0
    THEN LET leaf == Fact_get(db, fact_cls, root)
         IN  IF leaf = <<>>
             THEN [ok |-> FALSE, leaves |-> EmptyStorage]
             ELSE [ok |-> TRUE, leaves |-> 0 :> leaf[1]]
    ELSE IF ~has_children(db, root)
    THEN [ok |-> FALSE, leaves |-> EmptyStorage]
    ELSE LET children == get_children(db, root)
             mid == Pow2(height - 1)
             left_indices == SelectSeq(indices, LAMBDA index : index < mid)
             sel == SelectSeq(indices, LAMBDA index : index >= mid)
             right_indices == [j \in 1..Len(sel) |-> sel[j] - mid]
             left_leaves == get_leaves(db, children.left, height - 1,
                                       left_indices, fact_cls)
             right_leaves == get_leaves(db, children.right, height - 1,
                                        right_indices, fact_cls)
         IN  [ok |-> left_leaves.ok /\ right_leaves.ok,
              leaves |-> [x \in {y + mid : y \in DOMAIN right_leaves.leaves} |->
                             right_leaves.leaves[x - mid]] @@ left_leaves.leaves]

\* get_authentication_path listing the nodes on the way to the leaf, not
\* their siblings.
RECURSIVE get_authentication_path_own_branch(_, _, _, _)
get_authentication_path_own_branch(db, root, height, index) ==
    IF height = 0
    THEN [ok |-> TRUE, path |-> <<>>]
    ELSE IF ~has_children(db, root)
    THEN [ok |-> FALSE, path |-> <<>>]
    ELSE LET children == get_children(db, root)
             mid == Pow2(height - 1)
         IN  IF index >= mid
             THEN LET sub == get_authentication_path_own_branch(
                                 db, children.right, height - 1, index - mid)
                  IN  [ok |-> sub.ok, path |-> Append(sub.path, children.right)]
             ELSE LET sub == get_authentication_path_own_branch(
                                 db, children.left, height - 1, index)
                  IN  [ok |-> sub.ok, path |-> Append(sub.path, children.left)]

\* get_authentication_path listing the siblings from the root downwards.
RECURSIVE get_authentication_path_top_down(_, _, _, _)
get_authentication_path_top_down(db, root, height, index) ==
    IF height = 0
    THEN [ok |-> TRUE, path |-> <<>>]
    ELSE IF ~has_children(db, root)
    THEN [ok |-> FALSE, path |-> <<>>]
    ELSE LET children == get_children(db, root)
             mid == Pow2(height - 1)
         IN  IF index >= mid
             THEN LET sub == get_authentication_path_top_down(
                                 db, children.right, height - 1, index - mid)
                  IN  [ok |-> sub.ok, path |-> <<children.left>> \o sub.path]
             ELSE LET sub == get_authentication_path_top_down(
                                 db, children.left, height - 1, index)
                  IN  [ok |-> sub.ok, path |-> <<children.right>> \o sub.path]

\* MerkleTree.get_authentication_path: the siblings on the way from the
\* leaf up to the root; ok is FALSE on 'Missing node in db'.
RECURSIVE get_authentication_path(_, _, _, _)
get_authentication_path(db, root, height, index) ==
    IF height = 0
    THEN [ok |-> TRUE, path |-> <<>>]
    ELSE IF ~has_children(db, root)
    THEN [ok |-> FALSE, path |-> <<>>]
    ELSE LET children == get_children(db, root)
             mid == Pow2(height - 1)
         IN  IF index >= mid
             THEN LET sub == get_authentication_path(db, children.right,
                                                     height - 1, index - mid)
                  IN  [ok |-> sub.ok, path |-> Append(sub.path, children.left)]
             ELSE LET sub == get_authentication_path(db, children.left,
                                                     height - 1, index)
                  IN  [ok |-> sub.ok, path |-> Append(sub.path, children.right)]

\* calc_root: the root implied by a value at a leaf index and a path.
RECURSIVE calc_root(_, _, _)
calc_root(index, value, path) ==
    IF Len(path) = 0
    THEN value
    ELSE LET mid == Pow2(Len(path) - 1)
             rest == SubSeq(path, 1, Len(path) - 1)
         IN  IF index >= mid
             THEN hash_func(path[Len(path)], calc_root(index - mid, value, rest))
             ELSE hash_func(calc_root(index, value, rest), path[Len(path)])

\* verify_path accepting whatever root the value and the path lead to.
verify_path_unchecked(root, index, value, path) ==
    calc_root(index, value, path) = calc_root(index, value, path)

\* verify_path
verify_path(root, index, value, path) == root = calc_root(index, value, path)

\* empty_tree_roots beginning with the empty tree of height 1.
RECURSIVE empty_tree_roots_from_one(_, _)
empty_tree_roots_from_one(max_height, leaf_fact) ==
    IF max_height = 0
    THEN <<hash_func(Fact_hash(leaf_fact), Fact_hash(leaf_fact))>>
    ELSE LET roots == empty_tree_roots_from_one(max_height - 1, leaf_fact)
         IN  Append(roots, hash_func(roots[Len(roots)], roots[Len(roots)]))

\* MerkleTree.empty_tree_roots: the roots of the empty trees of heights
\* 0 .. max_height (element i + 1 of the sequence is the list's element i).
RECURSIVE empty_tree_roots(_, _)
empty_tree_roots(max_height, leaf_fact) ==
    IF max_height = 0
    THEN <<Fact_hash(leaf_fact)>>
    ELSE LET roots == empty_tree_roots(max_height - 1, leaf_fact)
         IN  Append(roots, hash_func(roots[Len(roots)], roots[Len(roots)]))

\* dfs_inner descending into the nodes of the exclude_set as well.
RECURSIVE dfs_inner_descending(_, _, _, _, _)
dfs_inner_descending(db, root, height, index, exclude_set) ==
    LET here == <<[index |-> index, root |-> root, height |-> height]>>
    IN  IF height = 0
        THEN [ok |-> TRUE, nodes |-> here]
        ELSE IF ~has_children(db, root)
        THEN [ok |-> FALSE, nodes |-> here]
        ELSE LET children == get_children(db, root)
                 l == dfs_inner_descending(db, children.left, height - 1,
                                           2 * index, exclude_set)
                 r == dfs_inner_descending(db, children.right, height - 1,
                                           2 * index + 1, exclude_set)
             IN  [ok |-> l.ok /\ r.ok, nodes |-> here \o l.nodes \o r.nodes]

\* MerkleTree.dfs / dfs_inner: the (index, root, height) triples in the order
\* they are yielded; ok is FALSE when get_children fails its assertion.
RECURSIVE dfs_inner(_, _, _, _, _)
dfs_inner(db, root, height, index, exclude_set) ==
    LET here == <<[index |-> index, root |-> root, height |-> height]>>
    IN  IF height = 0 \/ root \in exclude_set
        THEN [ok |-> TRUE, nodes |-> here]
        ELSE IF ~has_children(db, root)
        THEN [ok |-> FALSE, nodes |-> here]
        ELSE LET children == get_children(db, root)
                 l == dfs_inner(db, children.left, height - 1, 2 * index,
                                exclude_set)
                 r == dfs_inner(db, children.right, height - 1, 2 * index + 1,
                                exclude_set)
             IN  [ok |-> l.ok /\ r.ok, nodes |-> here \o l.nodes \o r.nodes]

dfs(db, root, height, exclude_set) == dfs_inner(db, root, height, 1, exclude_set)

(***************************************************************************)
(* The committee's persisted records and keys.                             *)
(***************************************************************************)
\* Committee.next_batch_id_key
next_batch_id_key == "committee_next_batch_id"

\* Committee.committee_batch_info_key: f'committee_batch_info:{batch_id}'
committee_batch_info_key(batch_id) == "committee_batch_info:" \o ToString(batch_id)

\* Storage.set_int: the decimal text of the value is stored.
set_int(db, key, value) == set_value(db, key, ToString(value))

\* Storage.get_int: int() of the stored decimal text.
get_int(db, key) ==
    CHOOSE n \in -1..(MaxBatch + 1) : ToString(n) = get_value(db, key)

CommitteeBatchInfo(vaults_root, orders_root, sequence_number) ==
    [vaults_root |-> vaults_root, orders_root |-> orders_root,
     sequence_number |-> sequence_number]

\* CommitteeBatchInfo.serialize: JSON with the roots as hex text.
CommitteeBatchInfo_serialize(info) ==
    [vaults_root |-> hex(info.vaults_root), orders_root |-> hex(info.orders_root),
     sequence_number |-> info.sequence_number]

\* CommitteeBatchInfo.deserialize
CommitteeBatchInfo_deserialize(data) ==
    CommitteeBatchInfo(fromhex(data.vaults_root), fromhex(data.orders_root),
                       data.sequence_number)

\* hash_availability_claim: keccak of the five fields in their fixed layout,
\* collision free.
hash_availability_claim(vaults_root, vaults_height, trades_root, trades_height, seq_num) ==
    <<vaults_root, vaults_height, trades_root, trades_height, seq_num>>

\* eth.Account._sign_hash(claim, key).signature: deterministic (RFC 6979) in
\* the claim for the member's fixed key.
sign_hash(availability_claim) == [signed |-> availability_claim]

(***************************************************************************)
(* The deferred-write cache (immediate_storage): reads see the overlay     *)
(* first, a successful scope exit flushes it, an exit by error drops it.   *)
(***************************************************************************)
\* cache_view ignoring the overlay: every read goes to the underlying store.
cache_view_underlying_only(db, cache) == db

cache_view(db, cache) == cache @@ db

\* The keys among those read that are fetched from the underlying store:
\* the ones the overlay does not hold.
read_through(cache, keys) == keys \ DOMAIN cache

\* The overlay after reading keys: the values found in the underlying store
\* are kept in it.
populated(db, cache, keys) ==
    [key \in (keys \ DOMAIN cache) \cap DOMAIN db |-> db[key]] @@ cache

\* The overlay after buffering writes.
buffer_writes(cache, writes) == writes @@ cache

\* immediate_storage_exit flushing the overlay however the scope is left.
immediate_storage_exit_flushing(db, cache, success) == mset(db, cache)

immediate_storage_exit(db, cache, success) ==
    IF success THEN mset(db, cache) ELSE db

(***************************************************************************)
(* What the gateway may send.                                              *)
(***************************************************************************)
\* A digest that is the root of no tree of height >= 1.
WrongRoot == to_bytes(0)

\* The leaf values the gateway's updates carry.
VaultFacts == {VaultStateFact(1, 1, 1)}

OrderFacts == {OrderStateFact(1)}

\* Dict items: lists of (index, fact) of length <= n with distinct indices.
RECURSIVE Items(_, _, _)
Items(indices, facts, n) ==
    IF n = 0
    THEN {<<>>}
    ELSE LET shorter == Items(indices, facts, n - 1)
         IN  shorter \cup
             {Append(s, <<i, f>>) :
                 s \in {t \in shorter : Len(t) = n - 1},
                 i \in indices, f \in facts}

DistinctKeys(s) == \A i, j \in 1..Len(s) : i # j => s[i][1] # s[j][1]

\* The leaves the gateway's updates touch: the first leaf of the tree, and an
\* index beyond the tree (which update refuses).
LeafIds(height) == {0, Pow2(height)}

VaultMods ==
    {s \in Items(LeafIds(VAULTS_MERKLE_HEIGHT), VaultFacts, MaxMods) : DistinctKeys(s)}

OrderMods ==
    {s \in Items(LeafIds(ORDERS_MERKLE_HEIGHT), OrderFacts, MaxMods) : DistinctKeys(s)}

\* order_tree_height() answers: the configured height or a different one.
TradesHeights == {ORDERS_MERKLE_HEIGHT, ORDERS_MERKLE_HEIGHT + 1}

\* The record compute_initial_batch_info builds: the roots of the two empty
\* trees and sequence number -1.
initial_batch_info ==
    CommitteeBatchInfo(empty_tree(VAULTS_MERKLE_HEIGHT, VaultStateFact_empty).root,
                       empty_tree(ORDERS_MERKLE_HEIGHT, OrderStateFact(0)).root, -1)

\* derive taking the initial batch info for a predecessor that is not stored.
derive_missing_prev_as_initial(store, mstore, state_update, validate) ==
    LET prev_key == committee_batch_info_key(state_update.prev_batch_id)
        failed(msg, buffered) ==
            [status |-> msg, cache |-> buffered,
             batch_info |-> CommitteeBatchInfo(WrongRoot, WrongRoot, 0)]
        prev_batch_info ==
            IF has_value(store, prev_key)
            THEN CommitteeBatchInfo_deserialize(get_value(store, prev_key))
            ELSE initial_batch_info
        v == update(mstore, prev_batch_info.vaults_root, VAULTS_MERKLE_HEIGHT,
                    state_update.vaults)
        o == IF validate
             THEN update(cache_view(mstore, v.writes), prev_batch_info.orders_root,
                         ORDERS_MERKLE_HEIGHT, state_update.orders)
             ELSE [ok |-> TRUE, root |-> WrongRoot, writes |-> EmptyStorage]
    IN
    IF ~v.ok \/ ~o.ok
    THEN failed("tree update failed", o.writes @@ v.writes)
    ELSE IF hex(v.root) # state_update.vault_root
    THEN failed("vault root mismatch", o.writes @@ v.writes)
    ELSE IF validate /\ hex(o.root) # state_update.order_root
    THEN failed("order root mismatch", o.writes @@ v.writes)
    ELSE [status |-> "ok", cache |-> o.writes @@ v.writes,
          batch_info |-> CommitteeBatchInfo(
              fromhex(state_update.vault_root), fromhex(state_update.order_root),
              prev_batch_info.sequence_number + 1)]

\* derive with the comparison of the vault root left out.
derive_vault_unchecked(store, mstore, state_update, validate) ==
    LET prev_key == committee_batch_info_key(state_update.prev_batch_id)
        failed(msg, buffered) ==
            [status |-> msg, cache |-> buffered,
             batch_info |-> CommitteeBatchInfo(WrongRoot, WrongRoot, 0)]
    IN
    IF ~has_value(store, prev_key)
    THEN failed("Prev batch not found", EmptyStorage)
    ELSE
    LET prev_batch_info == CommitteeBatchInfo_deserialize(get_value(store, prev_key))
        v == update(mstore, prev_batch_info.vaults_root, VAULTS_MERKLE_HEIGHT,
                    state_update.vaults)
        o == IF validate
             THEN update(cache_view(mstore, v.writes), prev_batch_info.orders_root,
                         ORDERS_MERKLE_HEIGHT, state_update.orders)
             ELSE [ok |-> TRUE, root |-> WrongRoot, writes |-> EmptyStorage]
    IN
    IF ~v.ok \/ ~o.ok
    THEN failed("tree update failed", o.writes @@ v.writes)
    ELSE IF validate /\ hex(o.root) # state_update.order_root
    THEN failed("order root mismatch", o.writes @@ v.writes)
    ELSE [status |-> "ok", cache |-> o.writes @@ v.writes,
          batch_info |-> CommitteeBatchInfo(
              fromhex(state_update.vault_root), fromhex(state_update.order_root),
              prev_batch_info.sequence_number + 1)]

\* derive recomputing and comparing the order root whatever the mode.
derive_orders_validated(store, mstore, state_update, validate) ==
    LET prev_key == committee_batch_info_key(state_update.prev_batch_id)
        failed(msg, buffered) ==
            [status |-> msg, cache |-> buffered,
             batch_info |-> CommitteeBatchInfo(WrongRoot, WrongRoot, 0)]
    IN
    IF ~has_value(store, prev_key)
    THEN failed("Prev batch not found", EmptyStorage)
    ELSE
    LET prev_batch_info == CommitteeBatchInfo_deserialize(get_value(store, prev_key))
        v == update(mstore, prev_batch_info.vaults_root, VAULTS_MERKLE_HEIGHT,
                    state_update.vaults)
        o == update(cache_view(mstore, v.writes), prev_batch_info.orders_root,
                    ORDERS_MERKLE_HEIGHT, state_update.orders)
    IN
    IF ~v.ok \/ ~o.ok
    THEN failed("tree update failed", o.writes @@ v.writes)
    ELSE IF hex(v.root) # state_update.vault_root
    THEN failed("vault root mismatch", o.writes @@ v.writes)
    ELSE IF hex(o.root) # state_update.order_root
    THEN failed("order root mismatch", o.writes @@ v.writes)
    ELSE [status |-> "ok", cache |-> o.writes @@ v.writes,
          batch_info |-> CommitteeBatchInfo(
              fromhex(state_update.vault_root), fromhex(state_update.order_root),
              prev_batch_info.sequence_number + 1)]

\* derive with the predecessor's sequence number copied instead of incremented.
derive_same_seq(store, mstore, state_update, validate) ==
    LET prev_key == committee_batch_info_key(state_update.prev_batch_id)
        failed(msg, buffered) ==
            [status |-> msg, cache |-> buffered,
             batch_info |-> CommitteeBatchInfo(WrongRoot, WrongRoot, 0)]
    IN
    IF ~has_value(store, prev_key)
    THEN failed("Prev batch not found", EmptyStorage)
    ELSE
    LET prev_batch_info == CommitteeBatchInfo_deserialize(get_value(store, prev_key))
        v == update(mstore, prev_batch_info.vaults_root, VAULTS_MERKLE_HEIGHT,
                    state_update.vaults)
        o == IF validate
             THEN update(cache_view(mstore, v.writes), prev_batch_info.orders_root,
                         ORDERS_MERKLE_HEIGHT, state_update.orders)
             ELSE [ok |-> TRUE, root |-> WrongRoot, writes |-> EmptyStorage]
    IN
    IF ~v.ok \/ ~o.ok
    THEN failed("tree update failed", o.writes @@ v.writes)
    ELSE IF hex(v.root) # state_update.vault_root
    THEN failed("vault root mismatch", o.writes @@ v.writes)
    ELSE IF validate /\ hex(o.root) # state_update.order_root
    THEN failed("order root mismatch", o.writes @@ v.writes)
    ELSE [status |-> "ok", cache |-> o.writes @@ v.writes,
          batch_info |-> CommitteeBatchInfo(
              fromhex(state_update.vault_root), fromhex(state_update.order_root),
              prev_batch_info.sequence_number)]

\* derive running the order-tree update in both modes, its root compared
\* only when orders are validated.
derive_orders_always_computed(store, mstore, state_update, validate) ==
    LET prev_key == committee_batch_info_key(state_update.prev_batch_id)
        failed(msg, buffered) ==
            [status |-> msg, cache |-> buffered,
             batch_info |-> CommitteeBatchInfo(WrongRoot, WrongRoot, 0)]
    IN
    IF ~has_value(store, prev_key)
    THEN failed("Prev batch not found", EmptyStorage)
    ELSE
    LET prev_batch_info == CommitteeBatchInfo_deserialize(get_value(store, prev_key))
        v == update(mstore, prev_batch_info.vaults_root, VAULTS_MERKLE_HEIGHT,
                    state_update.vaults)
        o == update(cache_view(mstore, v.writes), prev_batch_info.orders_root,
                    ORDERS_MERKLE_HEIGHT, state_update.orders)
    IN
    IF ~v.ok \/ ~o.ok
    THEN failed("tree update failed", o.writes @@ v.writes)
    ELSE IF hex(v.root) # state_update.vault_root
    THEN failed("vault root mismatch", o.writes @@ v.writes)
    ELSE IF validate /\ hex(o.root) # state_update.order_root
    THEN failed("order root mismatch", o.writes @@ v.writes)
    ELSE [status |-> "ok", cache |-> o.writes @@ v.writes,
          batch_info |-> CommitteeBatchInfo(
              fromhex(state_update.vault_root), fromhex(state_update.order_root),
              prev_batch_info.sequence_number + 1)]

(***************************************************************************)
(* Committee.validate_data_availability, up to the end of the deferred     *)
(* cache scope: the outcome of deriving the batch info from state_update.  *)
(* status is "ok" or the assertion that failed; cache holds the facts      *)
(* written inside the scope, whether the derivation succeeded or not.      *)
(***************************************************************************)
derive(store, mstore, state_update, validate) ==
    LET prev_key == committee_batch_info_key(state_update.prev_batch_id)
        failed(msg, buffered) ==
            [status |-> msg, cache |-> buffered,
             batch_info |-> CommitteeBatchInfo(WrongRoot, WrongRoot, 0)]
    IN
    IF ~has_value(store, prev_key)
    THEN failed("Prev batch not found", EmptyStorage)
    ELSE
    LET prev_batch_info == CommitteeBatchInfo_deserialize(get_value(store, prev_key))
        v == update(mstore, prev_batch_info.vaults_root, VAULTS_MERKLE_HEIGHT,
                    state_update.vaults)
        o == IF validate
             THEN update(cache_view(mstore, v.writes), prev_batch_info.orders_root,
                         ORDERS_MERKLE_HEIGHT, state_update.orders)
             ELSE [ok |-> TRUE, root |-> WrongRoot, writes |-> EmptyStorage]
    IN
    IF ~v.ok \/ ~o.ok
    THEN failed("tree update failed", o.writes @@ v.writes)
    ELSE IF hex(v.root) # state_update.vault_root
    THEN failed("vault root mismatch", o.writes @@ v.writes)
    ELSE IF validate /\ hex(o.root) # state_update.order_root
    THEN failed("order root mismatch", o.writes @@ v.writes)
    ELSE [status |-> "ok", cache |-> o.writes @@ v.writes,
          batch_info |-> CommitteeBatchInfo(
              fromhex(state_update.vault_root), fromhex(state_update.order_root),
              prev_batch_info.sequence_number + 1)]

\* The roots the member itself computes for (prev, vaults, orders), when it can.
computed_roots(store, mstore, prev, vaults, orders) ==
    LET prev_key == committee_batch_info_key(prev)
    IN  IF ~has_value(store, prev_key)
        THEN [vault |-> {}, order |-> {}]
        ELSE LET info == CommitteeBatchInfo_deserialize(get_value(store, prev_key))
                 v == update(mstore, info.vaults_root, VAULTS_MERKLE_HEIGHT, vaults)
                 o == update(cache_view(mstore, v.writes), info.orders_root,
                             ORDERS_MERKLE_HEIGHT, orders)
             IN  [vault |-> IF v.ok THEN {v.root} ELSE {},
                  order |-> IF o.ok THEN {o.root} ELSE {}]

\* The state updates get_batch_data may return: any predecessor id, any
\* modification lists, and claimed roots that either agree with what the
\* member computes or do not.
StateUpdates(store, mstore) ==
    UNION {
        LET roots == computed_roots(store, mstore, prev, vaults, orders)
        IN  {[vaults |-> vaults, orders |-> orders,
              vault_root |-> hex(vr), order_root |-> hex(oroot),
              prev_batch_id |-> prev] :
                vr \in roots.vault \cup {WrongRoot},
                oroot \in roots.order \cup {WrongRoot}} :
        prev \in -1..(MaxBatch - 1), vaults \in VaultMods, orders \in OrderMods}

\* What an iteration was handed: the update's claimed order root, whether
\* its predecessor is stored, whether each tree update can be computed from
\* the predecessor's roots and whether its root is the claimed one, and what
\* the call of the hook did.
received(store, mstore, state_update, answer) ==
    LET roots == computed_roots(store, mstore, state_update.prev_batch_id,
                                state_update.vaults, state_update.orders)
    IN  [order_root |-> state_update.order_root,
         prev_found |-> has_value(store,
                            committee_batch_info_key(state_update.prev_batch_id)),
         vaults_computed |-> roots.vault # {},
         vault_root_matches |-> roots.vault = {fromhex(state_update.vault_root)},
         orders_computed |-> roots.order # {},
         order_root_matches |-> roots.order = {fromhex(state_update.order_root)},
         hook |-> answer]

\* custom_validation.is_valid as Committee.run calls it: the hook shipped in
\* the repository takes (state_update, batch_id) and the loop passes one
\* argument, so the call raises; a third party's one-argument hook answers.
is_valid(installed_hook) ==
    IF installed_hook = "shipped" THEN {"TypeError"} ELSE {"True", "False"}

(***************************************************************************)
(* State.                                                                  *)
(***************************************************************************)
VARIABLES
    storage,            \* the progress store: key -> value
    merkle_storage,     \* the fact store: key -> value
    hook,               \* which is_valid hook is installed
    validate_orders,    \* config VALIDATE_ORDERS
    pc,                 \* where Committee.run is
    next_batch_id,      \* run's local next_batch_id
    stopped,            \* Committee.stopped
    derived,            \* validate_data_availability's batch_info and prev id
    signed,             \* the (signature, availability_claim) it returned
    posted,             \* gateway: batch ids a signature was POSTed for
    last_post,          \* gateway: the POST it received last, if any
    accepted,           \* gateway: batch ids acknowledged 'signature accepted'
    sent,               \* the POST the current iteration made, if any
    iteration,          \* the batch id and pointer the current iteration began with
    fetched,            \* what the current iteration got from the gateway and the hook
    effects,            \* the durable/external effects of the current iteration
    err,                \* what the loop last logged before sleeping
    prev_of,            \* batch id -> the prev_batch_id its stored info was derived from
    crashes,            \* number of crash-restarts so far
    faults,             \* number of failed steps after a derivation so far
    budget,             \* number of disruptions the execution may suffer
    tree_height,        \* tree runs: the height of the trees built
    batches,            \* tree runs: the trees built, each with the one it updates
    applied,            \* tree runs: the modifications of the last update
    overlay,            \* deferred-write scope: its in-memory overlay
    scope,              \* deferred-write scope: open, or how it was left
    scope_roots,        \* deferred-write scope: the roots returned inside it
    flushed_roots,      \* the roots returned inside scopes that were flushed
    backend_reads,      \* the keys the last operation read from the underlying store
    scopes,             \* number of scopes opened so far
    tasks,              \* concurrent update: the update() call of each tree node
    race,               \* concurrent update: the store, root and list it began with
    vaults_data,        \* balances tool: the vault entries of balances_data
    merkle_root,        \* balances tool: what balances_to_merkle_root returned
    prior_root,         \* balances tool: what it returned before the last edit
    edit,               \* balances tool: the last edit of vaults_data
    cache,              \* CachedStorage: its LRUCache, least recently used first
    underlying,         \* CachedStorage: the db of the store it wraps
    returned,           \* CachedStorage: what the last call returned or raised
    signature,          \* signer: the last sign call and the (r, w) it returned
    resigned,           \* signer: the (r, w) a repeat of that call returned
    verified,           \* signer: what verify returned for that signature
    checked             \* signer: the last verify call on given inputs

vars == <<storage, merkle_storage, hook, validate_orders, pc, next_batch_id,
          stopped, derived, signed, posted, last_post, accepted, sent,
          iteration, fetched, effects, err, prev_of, crashes, faults, budget,
          tree_height, batches, applied,
          overlay, scope, scope_roots, flushed_roots, backend_reads, scopes,
          tasks, race, vaults_data, merkle_root, prior_root, edit,
          cache, underlying, returned, signature, resigned, verified, checked>>

\* What an execution runs with: the hook, the mode and the disruptions allowed.
config == <<hook, validate_orders, budget>>
gateway == <<posted, last_post, accepted, sent>>
stores == <<storage, merkle_storage>>
observed == <<iteration, fetched>>
\* The trees of a run of the Merkle tree on its own; the committee's run
\* leaves them alone.
forest == <<tree_height, batches, applied>>

\* What a run of the deferred-write scope works on, beside the fact store
\* and tree_height.
scoped == <<overlay, scope, scope_roots, flushed_roots, backend_reads, scopes>>

\* What the committee leaves alone, and what a run of the trees, of the
\* scope, of the concurrent update or of the balances tool leaves alone
\* beside the committee.
\* What a run of one concurrent update works on, beside the fact store and
\* tree_height.
racing == <<tasks, race>>

\* What a run of the balances tool works on, beside tree_height.
balancing == <<vaults_data, merkle_root, prior_root, edit>>

\* What a run of a CachedStorage works on.
caching == <<cache, underlying, returned>>

\* What a run of sign and verify works on.
signing == <<signature, resigned, verified, checked>>

apart == <<forest, scoped, racing, balancing, caching, signing>>
beside_forest == <<scoped, racing, balancing, caching, signing>>
beside_scoped == <<batches, applied, racing, balancing, caching, signing>>
beside_racing == <<batches, applied, scoped, balancing, caching, signing>>
beside_balancing ==
    <<merkle_storage, batches, applied, scoped, racing, caching, signing>>
beside_caching == <<merkle_storage, forest, scoped, racing, balancing, signing>>
beside_signing == <<merkle_storage, forest, scoped, racing, balancing, caching>>

NoDerived == <<>>
NoSigned == <<>>

\* The persisted progress pointer, -1 standing for "key absent".
persisted_pointer ==
    IF has_value(storage, next_batch_id_key)
    THEN get_int(storage, next_batch_id_key) ELSE -1

\* Stored CommitteeBatchInfo of batch b (when present).
has_batch_info(b) == has_value(storage, committee_batch_info_key(b))
stored_batch_info(b) ==
    CommitteeBatchInfo_deserialize(get_value(storage, committee_batch_info_key(b)))

\* The state after construction, in an execution that may suffer
\* `disruptions` disruptions.
InitWith(disruptions) ==
    /\ storage = EmptyStorage
    /\ merkle_storage = EmptyStorage
    /\ hook \in {"shipped", "custom"}
    /\ validate_orders \in BOOLEAN
    /\ pc = "start"
    /\ next_batch_id = 0
    /\ stopped = FALSE
    /\ derived = NoDerived
    /\ signed = NoSigned
    /\ posted = {}
    /\ last_post = <<>>
    /\ accepted = {}
    /\ sent = <<>>
    /\ iteration = [batch_id |-> 0, pointer |-> -1]
    /\ fetched = <<>>
    /\ effects = <<>>
    /\ err = "none"
    /\ prev_of = EmptyStorage
    /\ crashes = 0
    /\ faults = 0
    /\ budget = disruptions
    /\ tree_height = 0
    /\ batches = <<>>
    /\ applied = <<>>
    /\ overlay = EmptyStorage
    /\ scope = "none"
    /\ scope_roots = {}
    /\ flushed_roots = {}
    /\ backend_reads = {}
    /\ scopes = 0
    /\ tasks = <<>>
    /\ race = <<>>
    /\ vaults_data = <<>>
    /\ merkle_root = <<>>
    /\ prior_root = <<>>
    /\ edit = "none"
    /\ cache = <<>>
    /\ underlying = EmptyStorage
    /\ returned = <<>>
    /\ signature = <<>>
    /\ resigned = <<>>
    /\ verified = <<>>
    /\ checked = <<>>

Init == InitWith(MaxDisruptions)

(***************************************************************************)
(* Committee.run.                                                          *)
(***************************************************************************)
\* An exception inside the loop's try: logged, then the loop sleeps.
Caught(msg) ==
    /\ pc' = "sleep"
    /\ err' = msg
    /\ derived' = NoDerived
    /\ signed' = NoSigned

\* The same for a step that follows the derivation; these are counted.
Fault(msg) ==
    /\ faults + crashes < budget
    /\ faults' = faults + 1
    /\ fetched' = <<>>
    /\ Caught(msg)

\* An exception outside the try (start-up): run() ends with it.
Escaped(msg) ==
    /\ pc' = "dead"
    /\ err' = msg
    /\ derived' = NoDerived
    /\ signed' = NoSigned

\* run, line 193: read the persisted pointer.
Start ==
    /\ pc = "start"
    /\ \/ /\ has_value(storage, next_batch_id_key)
          /\ next_batch_id' = get_int(storage, next_batch_id_key)
          /\ pc' = "loop"
          /\ UNCHANGED <<err, derived, signed>>
       \/ /\ ~has_value(storage, next_batch_id_key)
          /\ pc' = "init"
          /\ UNCHANGED <<next_batch_id, err, derived, signed>>
       \/ /\ Escaped("store error")
          /\ UNCHANGED next_batch_id
    /\ UNCHANGED <<stores, config, apart, stopped, gateway, observed, effects, prev_of, crashes, faults>>

\* compute_initial_batch_info, lines 78-89: both empty trees, built inside a
\* deferred-write scope that is flushed on exit.
ComputeInitialBatchInfo ==
    /\ pc = "init"
    /\ \/ LET vaults_tree == empty_tree(VAULTS_MERKLE_HEIGHT, VaultStateFact_empty)
              orders_tree == empty_tree(ORDERS_MERKLE_HEIGHT, OrderStateFact(0))
          IN  /\ merkle_storage' = immediate_storage_exit(
                     merkle_storage, orders_tree.writes @@ vaults_tree.writes, TRUE)
              /\ derived' = <<[batch_info |-> CommitteeBatchInfo(
                                   vaults_tree.root, orders_tree.root, -1),
                               prev_batch_id |-> -1]>>
              /\ pc' = "init_info"
              /\ UNCHANGED <<err, signed>>
       \/ /\ Escaped("store error")
          /\ UNCHANGED merkle_storage
    /\ UNCHANGED <<storage, config, apart, next_batch_id, stopped, gateway, observed,
                   effects, prev_of, crashes, faults>>

\* StoreInitialBatchInfo with the write left out: start-up goes on to the
\* pointer write while committee_batch_info:-1 has not been stored.
StoreInitialBatchInfo_skipped ==
    /\ pc = "init_info"
    /\ pc' = "init_ptr"
    /\ derived' = NoDerived
    /\ UNCHANGED <<storage, err, signed>>
    /\ UNCHANGED <<merkle_storage, config, apart, next_batch_id, stopped, gateway,
                   observed, effects, prev_of, crashes, faults>>

\* compute_initial_batch_info, lines 90-91: store committee_batch_info:-1.
StoreInitialBatchInfo ==
    /\ pc = "init_info"
    /\ \/ /\ storage' = set_value(storage, committee_batch_info_key(-1),
                                  CommitteeBatchInfo_serialize(derived[1].batch_info))
          /\ pc' = "init_ptr"
          /\ derived' = NoDerived
          /\ UNCHANGED <<err, signed>>
       \/ /\ Escaped("store error")
          /\ UNCHANGED storage
    /\ UNCHANGED <<merkle_storage, config, apart, next_batch_id, stopped, gateway,
                   observed, effects, prev_of, crashes, faults>>

\* run, lines 196-197: next_batch_id = 0 and its first write.
InitPointer ==
    /\ pc = "init_ptr"
    /\ next_batch_id' = 0
    /\ \/ /\ storage' = set_int(storage, next_batch_id_key, 0)
          /\ pc' = "loop"
          /\ UNCHANGED <<err, derived, signed>>
       \/ /\ Escaped("store error")
          /\ UNCHANGED storage
    /\ UNCHANGED <<merkle_storage, config, apart, stopped, gateway, observed, effects,
                   prev_of, crashes, faults>>

\* run, line 199: the loop ends once stopped is set.
LoopExit ==
    /\ pc = "loop"
    /\ stopped
    /\ pc' = "done"
    /\ UNCHANGED <<stores, config, apart, next_batch_id, stopped, derived, signed, gateway,
                   observed, effects, err, prev_of, crashes, faults>>

\* run, lines 201-208 and validate_data_availability, lines 103-144: fetch
\* the update, pass it to the hook, load the predecessor, recompute the
\* roots inside the deferred-write scope and leave the scope.
FetchAndValidate ==
    /\ pc = "loop"
    /\ ~stopped
    /\ iteration' = [batch_id |-> next_batch_id, pointer |-> persisted_pointer]
    /\ \/ /\ Caught("gateway error")
          /\ effects' = <<>>
          /\ fetched' = <<>>
          /\ UNCHANGED merkle_storage
       \/ /\ Caught("Waiting for batch")
          /\ effects' = <<>>
          /\ fetched' = <<>>
          /\ UNCHANGED merkle_storage
       \/ /\ Caught("store or hash worker error")
          /\ effects' = <<>>
          /\ fetched' = <<>>
          /\ UNCHANGED merkle_storage
       \/ /\ next_batch_id < MaxBatch
          /\ \E state_update \in StateUpdates(storage, merkle_storage),
                answer \in is_valid(hook) :
                LET d == derive(storage, merkle_storage, state_update, validate_orders)
                IN  /\ fetched' = <<received(storage, merkle_storage, state_update, answer)>>
                    /\ IF answer = "TypeError"
                       THEN Caught("TypeError") /\ effects' = <<>>
                            /\ UNCHANGED merkle_storage
                       ELSE IF answer = "False"
                       THEN Caught("Third party validation failed.") /\ effects' = <<>>
                            /\ UNCHANGED merkle_storage
                       ELSE IF d.status # "ok"
                       THEN /\ Caught(d.status)
                            /\ effects' = <<>>
                            /\ merkle_storage' =
                                   immediate_storage_exit(merkle_storage, d.cache, FALSE)
                       ELSE /\ d.batch_info.sequence_number <= MaxSeq
                            /\ merkle_storage' =
                                   immediate_storage_exit(merkle_storage, d.cache, TRUE)
                            /\ effects' = <<"facts">>
                            /\ derived' = <<[batch_info |-> d.batch_info,
                                             prev_batch_id |-> state_update.prev_batch_id]>>
                            /\ pc' = "write_info"
                            /\ UNCHANGED <<err, signed>>
    /\ sent' = <<>>
    /\ UNCHANGED <<storage, config, apart, next_batch_id, stopped, posted, last_post, accepted, prev_of,
                   crashes, faults>>

\* WriteBatchInfo with the write left out: the loop goes on to sign and POST
\* while committee_batch_info:{b} has not been stored.
WriteBatchInfo_skipped ==
    /\ pc = "write_info"
    /\ \/ /\ pc' = "height"
          /\ UNCHANGED <<storage, prev_of, effects, err, derived, signed, faults, fetched>>
       \/ /\ Fault("store error")
          /\ UNCHANGED <<storage, prev_of, effects>>
    /\ UNCHANGED <<merkle_storage, config, apart, next_batch_id, stopped, gateway,
                   iteration, crashes>>

\* validate_data_availability, lines 146-147: store committee_batch_info:{b}.
WriteBatchInfo ==
    /\ pc = "write_info"
    /\ \/ /\ storage' = set_value(storage, committee_batch_info_key(next_batch_id),
                                  CommitteeBatchInfo_serialize(derived[1].batch_info))
          /\ prev_of' = set_value(prev_of, next_batch_id, derived[1].prev_batch_id)
          /\ effects' = Append(effects, "info")
          /\ pc' = "height"
          /\ UNCHANGED <<err, derived, signed, faults, fetched>>
       \/ /\ Fault("store error")
          /\ UNCHANGED <<storage, prev_of, effects>>
    /\ UNCHANGED <<merkle_storage, config, apart, next_batch_id, stopped, gateway,
                   iteration, crashes>>

\* sign_batch with the two roots in each other's place in the claim.
sign_batch_swapped_roots(batch_info, trades_height) ==
    LET availability_claim == hash_availability_claim(
            batch_info.orders_root, VAULTS_MERKLE_HEIGHT, batch_info.vaults_root,
            trades_height, batch_info.sequence_number)
    IN  [signature |-> sign_hash(availability_claim),
         availability_claim |-> availability_claim,
         trades_height |-> trades_height]

\* validate_data_availability, lines 186-190: the claim over the derived
\* batch info and the trades height, and its signature.
sign_batch(batch_info, trades_height) ==
    LET availability_claim == hash_availability_claim(
            batch_info.vaults_root, VAULTS_MERKLE_HEIGHT, batch_info.orders_root,
            trades_height, batch_info.sequence_number)
    IN  [signature |-> sign_hash(availability_claim),
         availability_claim |-> availability_claim,
         trades_height |-> trades_height]

\* What order_tree_height() may do: return a height (<<h>>) or raise
\* BadRequest (<<>>), the answer of a gateway that has no such call.
OrderTreeHeightAnswers == {<<h>> : h \in TradesHeights} \cup {<<>>}

\* trades_height_from ignoring the gateway's answer.
trades_height_configured(answer) == ORDERS_MERKLE_HEIGHT

\* trades_height_from without the default of line 165.
trades_height_unset(answer) == IF answer = <<>> THEN 0 ELSE answer[1]

\* validate_data_availability, lines 165-182: trades_height is the
\* configured height unless order_tree_height() returned one.
trades_height_from(answer) ==
    IF answer = <<>> THEN ORDERS_MERKLE_HEIGHT ELSE answer[1]

\* validate_data_availability, lines 165-190: ask the gateway for the trades
\* height (BadRequest means the configured one), refuse a different height
\* when orders are validated, then sign.
FetchTradesHeightAndSign ==
    /\ pc = "height"
    /\ \/ \E answer \in OrderTreeHeightAnswers :
            LET height == trades_height_from(answer)
            IN  IF answer # <<>> /\ ORDERS_MERKLE_HEIGHT # height /\ validate_orders
                THEN Fault("trades height mismatch")
                ELSE /\ signed' = <<[order_tree_height |-> answer] @@
                                    sign_batch(derived[1].batch_info, height)>>
                     /\ derived' = NoDerived
                     /\ pc' = "post"
                     /\ UNCHANGED <<err, faults, fetched>>
       \/ Fault("gateway error")
    /\ UNCHANGED <<stores, config, apart, next_batch_id, stopped, gateway, iteration,
                   effects, prev_of, crashes>>

\* The gateway's record of a POST to approve_new_roots: the batch ids it got
\* a signature for (posted), the POST it got last (last_post), and what the
\* current iteration sent, with the POST that came before it (previous).
receive_post(batch_id, sig) ==
    /\ posted' = posted \cup {batch_id}
    /\ last_post' = <<[batch_id |-> batch_id, signature |-> sig.signature]>>
    /\ sent' = <<[batch_id |-> batch_id,
                  signature |-> sig.signature,
                  claim_hash |-> sig.availability_claim,
                  trades_height |-> sig.trades_height,
                  order_tree_height |-> sig.order_tree_height,
                  resent |-> batch_id \in posted,
                  previous |-> last_post]>>

\* SendSignature without the check of the gateway's answer: any answer to
\* the POST lets the loop advance.
SendSignature_unchecked ==
    /\ pc = "post"
    /\ \/ /\ receive_post(next_batch_id, signed[1])
          /\ accepted' = accepted \cup {next_batch_id}
          /\ effects' = Append(effects, "post")
          /\ pc' = "advance"
          /\ signed' = NoSigned
          /\ fetched' = <<>>
          /\ UNCHANGED <<err, derived, faults>>
       \/ /\ receive_post(next_batch_id, signed[1])
          /\ effects' = Append(effects, "post")
          /\ pc' = "advance"
          /\ signed' = NoSigned
          /\ fetched' = <<>>
          /\ UNCHANGED <<accepted, err, derived, faults>>
       \/ /\ Fault("gateway error")
          /\ UNCHANGED <<gateway, effects>>
    /\ UNCHANGED <<stores, config, apart, next_batch_id, stopped, iteration, prev_of, crashes>>

\* run, lines 209-210 and AvailabilityGatewayClient.send_signature: POST the
\* signature; anything but the 'signature accepted' answer raises.
SendSignature ==
    /\ pc = "post"
    /\ \/ /\ receive_post(next_batch_id, signed[1])
          /\ accepted' = accepted \cup {next_batch_id}
          /\ effects' = Append(effects, "post")
          /\ pc' = "advance"
          /\ signed' = NoSigned
          /\ fetched' = <<>>
          /\ UNCHANGED <<err, derived, faults>>
       \/ /\ receive_post(next_batch_id, signed[1])
          /\ effects' = Append(effects, "post")
          /\ Fault("Signature was not accepted")
          /\ UNCHANGED accepted
       \/ /\ Fault("gateway error")
          /\ UNCHANGED <<gateway, effects>>
    /\ UNCHANGED <<stores, config, apart, next_batch_id, stopped, iteration, prev_of, crashes>>

\* Advance moving the pointer past a batch that was never derived.
Advance_by_two ==
    /\ pc = "advance"
    /\ next_batch_id' = next_batch_id + 2
    /\ \/ /\ storage' = set_int(storage, next_batch_id_key, next_batch_id')
          /\ effects' = Append(effects, "ptr")
          /\ pc' = "loop"
          /\ UNCHANGED <<err, derived, signed, faults, fetched>>
       \/ /\ Fault("store error")
          /\ UNCHANGED <<storage, effects>>
    /\ UNCHANGED <<merkle_storage, config, apart, stopped, gateway, iteration, prev_of, crashes>>

\* run, lines 211-212: next_batch_id += 1, then the pointer write.
Advance ==
    /\ pc = "advance"
    /\ next_batch_id' = next_batch_id + 1
    /\ \/ /\ storage' = set_int(storage, next_batch_id_key, next_batch_id')
          /\ effects' = Append(effects, "ptr")
          /\ pc' = "loop"
          /\ UNCHANGED <<err, derived, signed, faults, fetched>>
       \/ /\ Fault("store error")
          /\ UNCHANGED <<storage, effects>>
    /\ UNCHANGED <<merkle_storage, config, apart, stopped, gateway, iteration, prev_of, crashes>>

\* run, lines 204 and 215: asyncio.sleep(polling_interval), then the loop top.
Sleep ==
    /\ pc = "sleep"
    /\ pc' = "loop"
    /\ err' = "none"
    /\ sent' = <<>>
    /\ effects' = <<>>
    /\ fetched' = <<>>
    /\ UNCHANGED <<stores, config, apart, next_batch_id, stopped, derived, signed, posted,
                   last_post, accepted, iteration, prev_of, crashes, faults>>

\* Stop cancelling the task: the flag is set and run() ends where it is.
Stop_cancelling ==
    /\ pc \notin {"done", "dead"}
    /\ ~stopped
    /\ stopped' = TRUE
    /\ pc' = "done"
    /\ UNCHANGED <<stores, config, apart, next_batch_id, derived, signed, gateway,
                   observed, effects, err, prev_of, crashes, faults>>

\* Committee.stop
Stop ==
    /\ pc \notin {"done", "dead"}
    /\ ~stopped
    /\ stopped' = TRUE
    /\ UNCHANGED <<stores, config, apart, pc, next_batch_id, derived, signed, gateway,
                   observed, effects, err, prev_of, crashes, faults>>

\* The process dies (or has ended) and main() starts a new Committee: the
\* stores and the gateway keep their state, everything in memory is lost.
CrashRestart ==
    /\ faults + crashes < budget
    /\ pc # "start"
    /\ crashes' = crashes + 1
    /\ pc' = "start"
    /\ next_batch_id' = 0
    /\ stopped' = FALSE
    /\ derived' = NoDerived
    /\ signed' = NoSigned
    /\ effects' = <<>>
    /\ err' = "none"
    /\ sent' = <<>>
    /\ fetched' = <<>>
    /\ UNCHANGED <<stores, config, apart, posted, last_post, accepted, iteration, prev_of, faults>>

Next ==
    \/ Start
    \/ ComputeInitialBatchInfo
    \/ StoreInitialBatchInfo
    \/ InitPointer
    \/ LoopExit
    \/ FetchAndValidate
    \/ WriteBatchInfo
    \/ FetchTradesHeightAndSign
    \/ SendSignature
    \/ Advance
    \/ Sleep
    \/ Stop
    \/ CrashRestart

Spec == Init /\ [][Next]_vars

\* run() in executions with one disruption more than Spec allows: a failed
\* step and a crash, two failed steps, or two crashes.
DisruptedInit == InitWith(MaxDisruptions + 1)

DisruptedSpec == DisruptedInit /\ [][Next]_vars

\* The steps of run(): every awaited call (gateway, stores, sleep) returns,
\* with a value or with an exception.
Returns ==
    \/ Start
    \/ ComputeInitialBatchInfo
    \/ StoreInitialBatchInfo
    \/ InitPointer
    \/ LoopExit
    \/ FetchAndValidate
    \/ WriteBatchInfo
    \/ FetchTradesHeightAndSign
    \/ SendSignature
    \/ Advance
    \/ Sleep

\* run() under the proviso that its calls return.
FairInit == InitWith(MaxDisruptions)

FairSpec == FairInit /\ [][Next]_vars /\ WF_vars(Returns)

(***************************************************************************)
(* The Merkle tree on its own, over the fact store: an empty tree is       *)
(* built, then updates are applied, each on top of any tree built so far   *)
(* (as the batches of merkle_tree_test.test_batches_and_revert).           *)
(***************************************************************************)
\* The leaves of these trees, the empty leaf among them.
empty_leaf == OrderStateFact(0)

TreeLeaves == {OrderStateFact(v) : v \in 0..TreeMaxValue}

\* The leaf indices of a tree of the given height.
TreeIndices(h) == 0..(Pow2(h) - 1)

\* The modification lists of one update: any indices of the tree, repeated
\* or not, in any order.
TreeMods(h) == Items(TreeIndices(h), TreeLeaves, TreeMaxMods)

\* The committee is not running; nothing is in the fact store yet.
TreeInit == InitWith(0) /\ hook = "shipped" /\ ~validate_orders

\* The committee's own state, which a tree run leaves alone.
committee == <<storage, hook, validate_orders, pc, next_batch_id, stopped,
               derived, signed, posted, last_post, accepted, sent, iteration,
               fetched, effects, err, prev_of, crashes, faults, budget>>

\* MerkleTree.empty_tree(height, storage, empty_leaf, hash_func)
EmptyTree ==
    /\ batches = <<>>
    /\ \E h \in 0..TreeHeight :
          LET tree == empty_tree(h, empty_leaf)
          IN  /\ tree_height' = h
              /\ merkle_storage' = mset(merkle_storage, tree.writes)
              /\ batches' = <<[previous_batch_index |-> 0, root_after |-> tree.root]>>
    /\ UNCHANGED <<applied, committee, beside_forest>>

\* tree.update(modifications) on the tree of an earlier batch.
UpdateTree ==
    /\ Len(batches) \in 1..TreeMaxBatches
    /\ \E previous \in 1..Len(batches), mods \in TreeMods(tree_height) :
          LET tree == update(merkle_storage, batches[previous].root_after,
                             tree_height, mods)
          IN  /\ Len(applied) + Len(mods) <= TreeMaxPairMods
              /\ tree.ok
              /\ merkle_storage' = mset(merkle_storage, tree.writes)
              /\ batches' = Append(batches, [previous_batch_index |-> previous,
                                             root_after |-> tree.root])
              /\ applied' = mods
    /\ UNCHANGED <<tree_height, committee, beside_forest>>

TreeNext == EmptyTree \/ UpdateTree

TreeSpec == TreeInit /\ [][TreeNext]_vars

(***************************************************************************)
(* The deferred-write scope on its own: scopes opened over the fact store, *)
(* trees built, updated and read inside them, and each scope left with     *)
(* success or by an error.                                                 *)
(***************************************************************************)
ScopeMods(h) == Items(TreeIndices(h), TreeLeaves, ScopeMaxMods)

\* The trees an operation inside the scope can start from.
KnownRoots == scope_roots \cup flushed_roots

\* async with immediate_storage(back_storage) as storage
OpenScope ==
    /\ scope # "open"
    /\ scopes < MaxScopes
    /\ scopes' = scopes + 1
    /\ scope' = "open"
    /\ overlay' = EmptyStorage
    /\ scope_roots' = {}
    /\ backend_reads' = {}
    /\ IF scopes = 0
       THEN tree_height' \in 1..TreeHeight
       ELSE tree_height' = tree_height
    /\ UNCHANGED <<merkle_storage, flushed_roots, committee, beside_scoped>>

\* MerkleTree.empty_tree(height, storage, DummyLeaf(0), hash_f) inside the scope
ScopeEmptyTree ==
    /\ scope = "open"
    /\ Cardinality(scope_roots) < MaxScopeRoots
    /\ LET tree == empty_tree(tree_height, empty_leaf)
       IN  /\ overlay' = buffer_writes(overlay, tree.writes)
           /\ scope_roots' = scope_roots \cup {tree.root}
    /\ backend_reads' = {}
    /\ UNCHANGED <<merkle_storage, scope, flushed_roots, scopes, tree_height,
                   committee, beside_scoped>>

\* tree.update(modifications) inside the scope
ScopeUpdate ==
    /\ scope = "open"
    /\ Cardinality(scope_roots) < MaxScopeRoots
    /\ \E root \in KnownRoots, mods \in ScopeMods(tree_height) :
          LET view == cache_view(merkle_storage, overlay)
              tree == update(view, root, tree_height, mods)
              reads == update_reads(view, root, tree_height, mods)
          IN  /\ tree.ok
              /\ backend_reads' = read_through(overlay, reads)
              /\ overlay' = buffer_writes(populated(merkle_storage, overlay, reads),
                                     tree.writes)
              /\ scope_roots' = scope_roots \cup {tree.root}
    /\ UNCHANGED <<merkle_storage, scope, flushed_roots, scopes, tree_height,
                   committee, beside_scoped>>

\* tree.get_leaves(range(2 ** height), DummyLeaf) inside the scope
ScopeGetLeaves ==
    /\ scope = "open"
    /\ \E root \in KnownRoots :
          LET view == cache_view(merkle_storage, overlay)
              reads == get_leaves_reads(view, root, tree_height, "order_state")
          IN  /\ get_leaves(view, root, tree_height,
                            [j \in 1..Pow2(tree_height) |-> j - 1], "order_state").ok
              /\ backend_reads' = read_through(overlay, reads)
              /\ overlay' = populated(merkle_storage, overlay, reads)
    /\ UNCHANGED <<merkle_storage, scope, scope_roots, flushed_roots, scopes,
                   tree_height, committee, beside_scoped>>

\* The end of the async with block, reached normally or by an exception.
ExitScope ==
    /\ scope = "open"
    /\ \E success \in BOOLEAN :
          /\ merkle_storage' = immediate_storage_exit(merkle_storage, overlay, success)
          /\ scope' = IF success THEN "flushed" ELSE "discarded"
          /\ flushed_roots' = IF success
                              THEN flushed_roots \cup scope_roots
                              ELSE flushed_roots
    /\ UNCHANGED <<overlay, scope_roots, backend_reads, scopes, tree_height,
                   committee, beside_scoped>>

ScopeNext ==
    \/ OpenScope
    \/ ScopeEmptyTree
    \/ ScopeUpdate
    \/ ScopeGetLeaves
    \/ ExitScope

ScopeSpec == TreeInit /\ [][ScopeNext]_vars

(***************************************************************************)
(* balances_to_merkle_root: the root of the vault tree computed from a     *)
(* list of vault entries without a store.  The tool hashes field elements  *)
(* (integers) where MerkleTree hashes their 32-byte encodings.             *)
(***************************************************************************)
\* A field element, held by its 32-byte big-endian encoding.
field_element(n) == [int |-> to_bytes(n)]

\* int.to_bytes(32, 'big') of a field element.
element_to_bytes(x) == x.int

\* pedersen_hash(x, y) of two field elements: the element whose encoding
\* pedersen_hash_func gives for the encodings of x and y.
pedersen_hash(x, y) == [int |-> hash_func(element_to_bytes(x), element_to_bytes(y))]

\* vault_hash / vault_hash_async
vault_hash(stark_key, token_id, balance) ==
    pedersen_hash(pedersen_hash(field_element(stark_key), field_element(token_id)),
                  field_element(balance))

\* calc_zero_nodes: element i + 1 is the root of the all-zero tree of height i.
RECURSIVE calc_zero_nodes(_)
calc_zero_nodes(height) ==
    IF height = 0
    THEN <<vault_hash(0, 0, 0)>>
    ELSE LET lower == calc_zero_nodes(height - 1)
         IN  Append(lower, pedersen_hash(lower[Len(lower)], lower[Len(lower)]))

\* The entries of one half, as calc_root splits them at mid.
RECURSIVE left_balances(_, _)
left_balances(balances, mid) ==
    IF Len(balances) = 0
    THEN <<>>
    ELSE (IF balances[1][1] < mid THEN <<balances[1]>> ELSE <<>>)
         \o left_balances(Tail(balances), mid)

RECURSIVE right_balances(_, _)
right_balances(balances, mid) ==
    IF Len(balances) = 0
    THEN <<>>
    ELSE (IF balances[1][1] >= mid
          THEN <<<<balances[1][1] - mid, balances[1][2]>>>>
          ELSE <<>>)
         \o right_balances(Tail(balances), mid)

\* calc_root hashing a leaf with amount 0 like any other leaf.
RECURSIVE balances_calc_root_hashing_zero(_, _, _)
balances_calc_root_hashing_zero(height, balances, zero_nodes_lookup) ==
    IF Len(balances) = 0
    THEN [ok |-> TRUE, root |-> zero_nodes_lookup[height + 1]]
    ELSE IF height = 0
    THEN IF Len(balances) # 1
         THEN [ok |-> FALSE, root |-> <<>>]
         ELSE LET vault_data == balances[Len(balances)][2]
              IN  [ok |-> TRUE,
                   root |-> vault_hash(vault_data.stark_key, vault_data.token_id,
                                       vault_data.amount)]
    ELSE LET mid == Pow2(height - 1)
             left == balances_calc_root_hashing_zero(
                         height - 1, left_balances(balances, mid), zero_nodes_lookup)
             right == balances_calc_root_hashing_zero(
                          height - 1, right_balances(balances, mid), zero_nodes_lookup)
         IN  IF left.ok /\ right.ok
             THEN [ok |-> TRUE, root |-> pedersen_hash(left.root, right.root)]
             ELSE [ok |-> FALSE, root |-> <<>>]

\* balances_to_merkle_root.calc_root; ok is FALSE when the assertion
\* len(balances) == 1 fails at a leaf.
RECURSIVE balances_calc_root(_, _, _)
balances_calc_root(height, balances, zero_nodes_lookup) ==
    IF Len(balances) = 0
    THEN [ok |-> TRUE, root |-> zero_nodes_lookup[height + 1]]
    ELSE IF height = 0
    THEN IF Len(balances) # 1
         THEN [ok |-> FALSE, root |-> <<>>]
         ELSE LET vault_data == balances[Len(balances)][2]
              IN  IF vault_data.amount = 0
                  THEN [ok |-> TRUE, root |-> zero_nodes_lookup[1]]
                  ELSE [ok |-> TRUE,
                        root |-> vault_hash(vault_data.stark_key, vault_data.token_id,
                                            vault_data.amount)]
    ELSE LET mid == Pow2(height - 1)
             left == balances_calc_root(height - 1, left_balances(balances, mid),
                                        zero_nodes_lookup)
             right == balances_calc_root(height - 1, right_balances(balances, mid),
                                         zero_nodes_lookup)
         IN  IF left.ok /\ right.ok
             THEN [ok |-> TRUE, root |-> pedersen_hash(left.root, right.root)]
             ELSE [ok |-> FALSE, root |-> <<>>]

\* balances_to_merkle_root(balances_data)
balances_to_merkle_root(height, data) ==
    balances_calc_root(height, [j \in 1..Len(data) |-> <<data[j].vault_id, data[j]>>],
                       calc_zero_nodes(height))

\* The entries a balances file may hold: a vault id of the tree or the first
\* one beyond it, a key, a token and an amount.
VaultEntries(h) ==
    [vault_id : 0..Pow2(h), stark_key : 1..MaxVaultField, token_id : {1},
     amount : 0..1]

\* The list with entry e put in at position j, and with the j-th entry taken out.
inserted(data, j, e) == SubSeq(data, 1, j - 1) \o <<e>> \o SubSeq(data, j, Len(data))

removed(data, j) == SubSeq(data, 1, j - 1) \o SubSeq(data, j + 1, Len(data))

\* balances_to_merkle_root on a balances file of up to MaxVaults entries.
BalancesToMerkleRoot ==
    /\ merkle_root = <<>>
    /\ \E h \in 1..TreeHeight :
          \E data \in UNION {[1..n -> VaultEntries(h)] : n \in 0..MaxVaults} :
             /\ tree_height' = h
             /\ vaults_data' = data
             /\ merkle_root' = <<balances_to_merkle_root(h, data)>>
    /\ UNCHANGED <<prior_root, edit, committee, beside_balancing>>

\* The tool run again after an entry with amount 0 was added to the file.
AddZeroVault ==
    /\ merkle_root # <<>>
    /\ Len(vaults_data) < MaxVaults + MaxEdits
    /\ \E e \in VaultEntries(tree_height), j \in 1..(Len(vaults_data) + 1) :
          /\ e.amount = 0
          /\ vaults_data' = inserted(vaults_data, j, e)
          /\ merkle_root' = <<balances_to_merkle_root(tree_height, vaults_data')>>
    /\ prior_root' = merkle_root
    /\ edit' = "added"
    /\ UNCHANGED <<tree_height, committee, beside_balancing>>

\* The tool run again after an entry with amount 0 was removed from the file.
RemoveZeroVault ==
    /\ merkle_root # <<>>
    /\ \E j \in 1..Len(vaults_data) :
          /\ vaults_data[j].amount = 0
          /\ vaults_data' = removed(vaults_data, j)
          /\ merkle_root' = <<balances_to_merkle_root(tree_height, vaults_data')>>
    /\ prior_root' = merkle_root
    /\ edit' = "removed"
    /\ UNCHANGED <<tree_height, committee, beside_balancing>>

BalanceNext == BalancesToMerkleRoot \/ AddZeroVault \/ RemoveZeroVault

BalanceSpec == TreeInit /\ [][BalanceNext]_vars

(***************************************************************************)
(* One MerkleTree.update with its recursion run concurrently: every        *)
(* update() call of the recursion is a task that moves from one await to   *)
(* the next (get_children, the hash of set_fact, the write of set_fact),   *)
(* and the tasks of two halves gathered together interleave freely.        *)
(***************************************************************************)
\* Tasks are named by the 1-based array index of the node they update.
TaskIds == 1..(Pow2(tree_height + 1) - 1)

depth(n) == CHOOSE d \in 0..TreeHeight : Pow2(d) <= n /\ n < Pow2(d + 1)

height_of(n) == tree_height - depth(n)

not_called == [pc |-> "off", root |-> <<>>, modifications |-> <<>>,
               children |-> <<>>, new_root |-> <<>>]

\* update(modifications) called on the subtree with the given root: at
\* height 0 it goes straight to set_fact, above it first awaits get_children.
called(root, height, modifications) ==
    [pc |-> IF height = 0 THEN "hash" ELSE "read", root |-> root,
     modifications |-> modifications, children |-> <<>>, new_root |-> <<>>]

\* The subtree a finished or never called update() leaves at node n.
result_of(n) == IF tasks[n].pc = "off" THEN tasks[n].root ELSE tasks[n].new_root

\* The fact update() writes at node n: the last modification at a leaf, the
\* node over the two results above it.
fact_of(n) ==
    IF height_of(n) = 0
    THEN tasks[n].modifications[Len(tasks[n].modifications)][2]
    ELSE MerkleNodeFact(result_of(2 * n), result_of(2 * n + 1))

\* update() at node n going on to combine as soon as one half is done.
joined_first_completed(n) ==
    \E c \in {2 * n, 2 * n + 1} : tasks[c].pc \in {"off", "done"}

\* update() at node n may go on to combine: the halves it awaits are done.
joined(n) == \A c \in {2 * n, 2 * n + 1} : tasks[c].pc \in {"off", "done"}

\* A tree is built in an empty store, and update(modifications) is called
\* on it with a non-empty list.
RaceBegin ==
    /\ race = <<>>
    /\ \E h \in 1..TreeHeight :
          \E base \in Items(TreeIndices(h), TreeLeaves, RaceBaseMods),
             modifications \in Items(TreeIndices(h), TreeLeaves, RaceMaxMods) \ {<<>>} :
             LET empty == empty_tree(h, empty_leaf)
                 tree == update(empty.writes, empty.root, h, base)
                 store == mset(empty.writes, tree.writes)
             IN  /\ tree_height' = h
                 /\ merkle_storage' = store
                 /\ race' = <<[store |-> store, root |-> tree.root,
                               modifications |-> modifications]>>
                 /\ tasks' = [n \in 1..(Pow2(h + 1) - 1) |->
                                 IF n = 1 THEN called(tree.root, h, modifications)
                                 ELSE not_called]
    /\ UNCHANGED <<committee, beside_racing>>

\* left, right = await self.get_children(), then the calls on the halves
\* that have modifications (gathered when both have).
TaskRead(n) ==
    /\ tasks[n].pc = "read"
    /\ has_children(merkle_storage, tasks[n].root)
    /\ LET children == get_children(merkle_storage, tasks[n].root)
           mid == Pow2(height_of(n) - 1)
           lm == left_modifications(tasks[n].modifications, mid)
           rm == right_modifications(tasks[n].modifications, mid)
           half(root, modifications) ==
               IF Len(modifications) = 0
               THEN [not_called EXCEPT !.root = root]
               ELSE called(root, height_of(n) - 1, modifications)
       IN  tasks' = [tasks EXCEPT ![n].pc = "wait",
                                  ![n].children = <<children>>,
                                  ![2 * n] = half(children.left, lm),
                                  ![2 * n + 1] = half(children.right, rm)]
    /\ UNCHANGED <<merkle_storage, tree_height, race, committee, beside_racing>>

\* set_fact, line 118: hash_val = await self._hash(hash_func), at a leaf or
\* in combine once the awaited halves have returned.
TaskHash(n) ==
    /\ \/ tasks[n].pc = "hash"
       \/ tasks[n].pc = "wait" /\ joined(n)
    /\ tasks' = [tasks EXCEPT ![n].pc = "write",
                              ![n].new_root = Fact_hash(fact_of(n))]
    /\ UNCHANGED <<merkle_storage, tree_height, race, committee, beside_racing>>

\* set_fact, line 119: await DBObject.set(self, storage, hash_val); update()
\* returns the new tree.
TaskWrite(n) ==
    /\ tasks[n].pc = "write"
    /\ merkle_storage' = mset(merkle_storage, set_fact(fact_of(n)))
    /\ tasks' = [tasks EXCEPT ![n].pc = "done"]
    /\ UNCHANGED <<tree_height, race, committee, beside_racing>>

RaceNext ==
    \/ RaceBegin
    \/ \E n \in DOMAIN tasks : TaskRead(n)
    \/ \E n \in DOMAIN tasks : TaskHash(n)
    \/ \E n \in DOMAIN tasks : TaskWrite(n)

RaceSpec == TreeInit /\ [][RaceNext]_vars

(***************************************************************************)
(* Properties of the committee loop.                                       *)
(***************************************************************************)
\* The current iteration has POSTed a signature.
JustPosted == Len(sent) = 1

\* The POST the gateway received before the current iteration's POST, if any.
HasPreviousPost == JustPosted /\ Len(sent[1].previous) = 1

PreviousPost == sent[1].previous[1]

\* The sequence number stored in store st under committee_batch_info:{b}.
sequence_number_of(st, b) ==
    CommitteeBatchInfo_deserialize(
        get_value(st, committee_batch_info_key(b))).sequence_number

\* C1: the member never POSTs two different signatures for the same batch id:
\* a POST for the batch id of the POST before it carries the same signature.
C1_OneSignaturePerBatch ==
    (HasPreviousPost /\ PreviousPost.batch_id = sent[1].batch_id)
        => PreviousPost.signature = sent[1].signature

\* C2 as claimed: the signature POSTed for batch b is the signature of the
\* claim over the stored CommitteeBatchInfo[b] and the configured heights,
\* whatever the gateway answered.
C2_SignatureFromBatchInfoOnly ==
    JustPosted =>
        LET info == stored_batch_info(sent[1].batch_id)
        IN  sent[1].signature = sign_hash(hash_availability_claim(
                info.vaults_root, VAULTS_MERKLE_HEIGHT, info.orders_root,
                ORDERS_MERKLE_HEIGHT, info.sequence_number))

\* C2 amended: the signature POSTed for batch b is the signature of the claim
\* over the stored CommitteeBatchInfo[b], the configured vault height and the
\* trades height of the iteration, which is the configured order height
\* whenever orders are validated.
C2_SignatureFromBatchInfoAndTradesHeight ==
    JustPosted =>
        LET info == stored_batch_info(sent[1].batch_id)
        IN  /\ has_batch_info(sent[1].batch_id)
            /\ sent[1].trades_height \in TradesHeights
            /\ validate_orders => sent[1].trades_height = ORDERS_MERKLE_HEIGHT
            /\ sent[1].signature = sign_hash(hash_availability_claim(
                   info.vaults_root, VAULTS_MERKLE_HEIGHT, info.orders_root,
                   sent[1].trades_height, info.sequence_number))

\* A signature over a trades height that is not the configured one was POSTed.
C2_Witness ==
    /\ JustPosted
    /\ sent[1].trades_height # ORDERS_MERKLE_HEIGHT
    /\ sent[1].resent

\* C3: within one iteration the effects happen in the order fact store,
\* committee_batch_info:{b}, POST, committee_next_batch_id: what the
\* iteration has done so far is always a prefix of that list.
EffectOrder == <<"facts", "info", "post", "ptr">>

C3_EffectsInOrder ==
    /\ Len(effects) <= Len(EffectOrder)
    /\ \A i \in 1..Len(effects) : effects[i] = EffectOrder[i]

\* An iteration performed all four effects.
C3_Witness == effects = EffectOrder

\* C4: when an iteration ends in the sleep that follows an error or an
\* absent update, the batch id the loop works on and the stored pointer are
\* those the iteration began with.
C4_ErrorKeepsBatchId ==
    pc = "sleep" =>
        /\ next_batch_id = iteration.batch_id
        /\ persisted_pointer = iteration.pointer

C6_PointerMonotoneNoSkip ==
    [][/\ persisted_pointer' >= persisted_pointer
       /\ \A b \in 0..(persisted_pointer' - 1) : b \in accepted']_vars

\* The pointer went past two batches in an execution with a fault.
C6_Witness ==
    /\ persisted_pointer >= 2
    /\ faults >= 1
    /\ crashes >= 1

\* C7: signatures are POSTed in batch-id order: a POST is never for a
\* smaller batch id than the POST before it.
C7_PostsInBatchOrder ==
    HasPreviousPost => PreviousPost.batch_id <= sent[1].batch_id

\* C8: in every state, every stored CommitteeBatchInfo[b], b >= 0, that was
\* derived from predecessor p has the sequence number of the stored
\* CommitteeBatchInfo[p] plus one.
C8_SequenceFollowsPredecessor ==
    \A b \in 0..(MaxBatch - 1) :
        has_batch_info(b) =>
            /\ has_batch_info(prev_of[b])
            /\ sequence_number_of(storage, b) =
                   sequence_number_of(storage, prev_of[b]) + 1

\* C9 as claimed: the sequence numbers of signed batches are strictly
\* increasing in the batch id.
C9_SequenceStrictlyIncreasing ==
    \A b1, b2 \in posted :
        b1 < b2 => sequence_number_of(storage, b1) < sequence_number_of(storage, b2)

\* C9 amended: the step that stores committee_batch_info:{b} stores the
\* sequence number that is stored, at that time, for the predecessor the
\* update names, plus one.
C9_SequenceIncrementsPredecessor ==
    [][(pc = "write_info" /\ pc' = "height") =>
          /\ has_batch_info(prev_of'[next_batch_id])
          /\ sequence_number_of(storage', next_batch_id) =
                 sequence_number_of(storage, prev_of'[next_batch_id]) + 1]_vars

\* Two batches derived from the same predecessor are stored with the same
\* sequence number, the second one just written.
C9_Witness ==
    /\ pc = "height"
    /\ next_batch_id = 1
    /\ has_batch_info(0)
    /\ has_batch_info(1)
    /\ prev_of[0] = prev_of[1]
    /\ sequence_number_of(storage, 0) = sequence_number_of(storage, 1)

\* C10: committee_batch_info:{b} is write-once: once stored, its value never
\* changes.
C10_BatchInfoWriteOnce ==
    [][\A b \in 0..(MaxBatch - 1) :
          has_batch_info(b) =>
              get_value(storage', committee_batch_info_key(b)) =
                  get_value(storage, committee_batch_info_key(b))]_vars

(***************************************************************************)
(* Properties of one iteration.                                            *)
(***************************************************************************)
\* The current iteration got an update from the gateway and has not yet
\* failed after the derivation nor POSTed.
HasFetched == Len(fetched) = 1

\* custom_validation.is_valid, line 8: the hook shipped in the repository
\* returns True for every update; a third party's hook decides.
hook_accepts(installed_hook, answer) ==
    IF installed_hook = "shipped" THEN TRUE ELSE answer = "True"

\* The update of the current iteration names a stored predecessor and its
\* claimed roots are the recomputed ones (the order root only when orders
\* are validated).
ValidUpdate ==
    /\ HasFetched
    /\ fetched[1].prev_found
    /\ fetched[1].vaults_computed
    /\ fetched[1].vault_root_matches
    /\ validate_orders =>
           (fetched[1].orders_computed /\ fetched[1].order_root_matches)

\* C11: an iteration that got a valid update which the installed hook
\* accepts does not end in the error sleep: it goes on to sign the batch.
C11_ValidUpdateIsSigned ==
    (ValidUpdate /\ hook_accepts(hook, fetched[1].hook)) => pc # "sleep"


\* C12: whenever the key committee_next_batch_id exists,
\* committee_batch_info:-1 exists too and holds sequence number -1 and the
\* roots of the empty vault and order trees: start-up stores it before it
\* sets the pointer to 0.
C12_InitialBatchInfoBeforePointer ==
    has_value(storage, next_batch_id_key) =>
        /\ has_batch_info(-1)
        /\ stored_batch_info(-1) = initial_batch_info

\* Start-up has just run on an empty store: the pointer is 0 and the loop is
\* about to begin.
C12_Witness ==
    /\ pc = "loop"
    /\ persisted_pointer = 0
    /\ posted = {}
    /\ crashes = 0
    /\ stored_batch_info(-1).sequence_number = -1


\* validate_data_availability is called in the step taken: the loop fetches
\* an update which the hook lets through.
Validates == pc = "loop" /\ HasFetched' /\ fetched'[1].hook = "True"

\* The step is an iteration's failure that changed neither the metadata
\* store nor the gateway's record of POSTs nor the batch id in memory.
Refused(msg) ==
    /\ pc' = "sleep"
    /\ err' = msg
    /\ storage' = storage
    /\ posted' = posted
    /\ sent' = <<>>
    /\ signed' = NoSigned
    /\ next_batch_id' = next_batch_id

\* The update validated in the step has a vault root other than the one
\* recomputed from the predecessor's vaults_root and update.vaults.
VaultRootMismatch ==
    Validates /\ fetched'[1].vaults_computed /\ ~fetched'[1].vault_root_matches

\* C13 as stated: whenever the recomputed vault root differs from
\* update.vault_root, with or without order validation, the iteration fails
\* with 'vault root mismatch', committee_batch_info:{b} is not written, no
\* signature is POSTed and the pointer is not advanced.
C13_VaultRootMismatchFails ==
    [][VaultRootMismatch => Refused("vault root mismatch")]_vars

\* C13: whenever the recomputed vault root differs from update.vault_root,
\* the iteration fails without writing committee_batch_info:{b}, POSTing or
\* advancing the pointer; the failure is 'vault root mismatch' unless orders
\* are validated and the update of the order tree itself raises, which
\* asyncio.gather reports before the vault root is compared.
C13_VaultRootMismatchRefused ==
    [][VaultRootMismatch =>
           Refused(IF validate_orders /\ ~fetched'[1].orders_computed
                   THEN "tree update failed" ELSE "vault root mismatch")]_vars

\* A vault-root mismatch has just been refused.
C13_Witness ==
    /\ HasFetched
    /\ fetched[1].hook = "True"
    /\ fetched[1].vaults_computed
    /\ ~fetched[1].vault_root_matches
    /\ err = "vault root mismatch"
    /\ pc = "sleep"


\* The update validated in the step has the recomputed vault root but an
\* order root other than the one recomputed from the predecessor's
\* orders_root and update.orders, and orders are validated.
OrderRootMismatch ==
    /\ Validates
    /\ validate_orders
    /\ fetched'[1].vaults_computed
    /\ fetched'[1].vault_root_matches
    /\ fetched'[1].orders_computed
    /\ ~fetched'[1].order_root_matches

\* C14: with validate_orders true, an update whose order root differs from
\* the recomputed one fails with 'order root mismatch'; nothing is written
\* under committee_batch_info:{b} and the Merkle store is left as it was,
\* the facts of both trees buffered in the scope being dropped.
C14_OrderRootMismatchPersistsNothing ==
    [][OrderRootMismatch =>
           (Refused("order root mismatch") /\ merkle_storage' = merkle_storage)]_vars

\* An order-root mismatch has just been refused in full-validation mode.
C14_Witness ==
    /\ validate_orders
    /\ HasFetched
    /\ fetched[1].vault_root_matches
    /\ fetched[1].orders_computed
    /\ ~fetched[1].order_root_matches
    /\ err = "order root mismatch"
    /\ pc = "sleep"


\* The current iteration validates, without order validation, an update
\* whose vault root is the recomputed one.
VaultOnlyValid ==
    /\ ~validate_orders
    /\ HasFetched
    /\ fetched[1].hook = "True"
    /\ fetched[1].vaults_computed
    /\ fetched[1].vault_root_matches

\* C15: without order validation an update whose vault root matches is
\* accepted whatever update.orders contains; committee_batch_info:{b} is
\* stored with orders_root equal to update.order_root, and the signature is
\* the one over the stored vault root, update.order_root and the sequence
\* number, so it does not depend on update.orders.
C15_OrderRootTakenOnTrust ==
    VaultOnlyValid =>
        /\ pc \in {"write_info", "height", "post"}
        /\ pc \in {"height", "post"} =>
               /\ has_batch_info(next_batch_id)
               /\ stored_batch_info(next_batch_id).orders_root =
                      fromhex(fetched[1].order_root)
        /\ pc = "post" =>
               signed[1].signature =
                   sign_hash(hash_availability_claim(
                       stored_batch_info(next_batch_id).vaults_root,
                       VAULTS_MERKLE_HEIGHT,
                       fromhex(fetched[1].order_root),
                       signed[1].trades_height,
                       stored_batch_info(next_batch_id).sequence_number))

\* A batch has been signed whose update.orders does not lead to
\* update.order_root.
C15_Witness ==
    /\ VaultOnlyValid
    /\ pc = "post"
    /\ ~fetched[1].order_root_matches


\* The update validated in the step names a predecessor whose
\* committee_batch_info is not stored.
MissingPredecessor == Validates /\ ~fetched'[1].prev_found

\* C16: when committee_batch_info:{update.prev_batch_id} is absent the
\* iteration fails at once with 'Prev batch not found': neither store is
\* written, nothing is signed or POSTed, and the batch id in memory stays,
\* so the loop asks for the same batch again.
C16_MissingPredecessorRefused ==
    [][MissingPredecessor =>
           (Refused("Prev batch not found") /\ merkle_storage' = merkle_storage)]_vars

\* An update naming a predecessor that is not stored has just been refused.
C16_Witness ==
    /\ HasFetched
    /\ fetched[1].hook = "True"
    /\ ~fetched[1].prev_found
    /\ err = "Prev batch not found"
    /\ pc = "sleep"
    /\ next_batch_id = iteration.batch_id


\* The current iteration has stored committee_batch_info:{b}.
WroteBatchInfo == \E i \in 1..Len(effects) : effects[i] = "info"

\* C17: when orders are validated and the gateway's order_tree_height()
\* differs from ORDERS_MERKLE_HEIGHT, the iteration that aborts at the
\* trades-height step has written no committee_batch_info:{b} and has
\* POSTed nothing.
C17_HeightMismatchPersistsNothing ==
    (validate_orders /\ pc = "sleep" /\ err = "trades height mismatch") =>
        (~WroteBatchInfo /\ sent = <<>>)


\* The step signs the batch, without order validation, after
\* order_tree_height() returned a height other than ORDERS_MERKLE_HEIGHT.
SignsWithOtherHeight ==
    /\ pc = "height"
    /\ pc' = "post"
    /\ ~validate_orders
    /\ signed'[1].order_tree_height \notin {<<>>, <<ORDERS_MERKLE_HEIGHT>>}

\* C18: without order validation, when the gateway's order_tree_height()
\* differs from the configured height, the claim is signed with the
\* gateway's height as trades_height; the vault height is the configured
\* one, the vault root is the recomputed one, and the stored
\* committee_batch_info:{b} is the derived one, which the signing step
\* leaves as it is.
C18_SignedWithGatewayHeight ==
    [][SignsWithOtherHeight =>
           LET info == stored_batch_info(next_batch_id)
               claim == hash_availability_claim(
                            info.vaults_root, VAULTS_MERKLE_HEIGHT, info.orders_root,
                            signed'[1].order_tree_height[1], info.sequence_number)
           IN  /\ signed'[1].availability_claim = claim
               /\ signed'[1].signature = sign_hash(claim)
               /\ info = derived[1].batch_info
               /\ fetched[1].vault_root_matches
               /\ info.orders_root = fromhex(fetched[1].order_root)
               /\ storage' = storage
               /\ merkle_storage' = merkle_storage]_vars

\* A batch has been signed with a gateway height other than the configured
\* one.
C18_Witness ==
    /\ ~validate_orders
    /\ pc = "post"
    /\ signed[1].order_tree_height = <<ORDERS_MERKLE_HEIGHT + 1>>
    /\ signed[1].trades_height = ORDERS_MERKLE_HEIGHT + 1


\* The claim over the batch info stored for batch b, signed with the
\* configured heights.
configured_claim(b) ==
    hash_availability_claim(
        stored_batch_info(b).vaults_root, VAULTS_MERKLE_HEIGHT,
        stored_batch_info(b).orders_root, ORDERS_MERKLE_HEIGHT,
        stored_batch_info(b).sequence_number)

\* C19: when order_tree_height() fails with BadRequest (a gateway without
\* the call) the batch is signed all the same, with trades_height equal to
\* the configured ORDERS_MERKLE_HEIGHT, and that signature is what the
\* iteration POSTs.
C19_BadRequestMeansConfiguredHeight ==
    /\ (Len(signed) = 1 /\ signed[1].order_tree_height = <<>>) =>
           /\ pc = "post"
           /\ signed[1].trades_height = ORDERS_MERKLE_HEIGHT
           /\ signed[1].availability_claim = configured_claim(next_batch_id)
           /\ signed[1].signature = sign_hash(configured_claim(next_batch_id))
    /\ (JustPosted /\ sent[1].order_tree_height = <<>>) =>
           /\ sent[1].trades_height = ORDERS_MERKLE_HEIGHT
           /\ sent[1].claim_hash = configured_claim(sent[1].batch_id)
           /\ sent[1].signature = sign_hash(configured_claim(sent[1].batch_id))

\* An iteration whose order_tree_height() call failed with BadRequest has
\* POSTed its signature and written the advanced pointer.
C19_Witness ==
    /\ JustPosted
    /\ sent[1].order_tree_height = <<>>
    /\ sent[1].batch_id \in accepted
    /\ effects = EffectOrder
    /\ pc = "loop"
    /\ persisted_pointer = sent[1].batch_id + 1


\* run() has ended: the loop was left, or start-up raised.
Terminated == pc \in {"done", "dead"}

\* The process died and a new Committee was started in the step.
Restarted == pc' = "start" /\ crashes' = crashes + 1

\* stop() changes the flag and nothing else.
StopOnlySetsFlag ==
    (~stopped /\ stopped') =>
        UNCHANGED <<stores, config, pc, next_batch_id, derived, signed, gateway,
                    observed, effects, err, prev_of, crashes, faults>>

\* The loop is left only from its top, with the flag set.
ExitOnlyAtLoopTop == (pc # "done" /\ pc' = "done") => (pc = "loop" /\ stopped)

\* With the flag set no iteration begins.
NoIterationAfterStop ==
    (stopped /\ pc = "loop" /\ pc' # pc) => (pc' = "done" \/ Restarted)

\* With the flag set, an iteration whose POST was acknowledged goes on to
\* the pointer write.
PointerWriteAfterPost ==
    (stopped /\ pc = "advance" /\ pc' # pc) =>
        \/ pc' = "loop" /\ persisted_pointer' = next_batch_id'
        \/ pc' = "sleep" /\ err' = "store error"
        \/ Restarted

\* C20: stop() only sets a flag, which is looked at only at the top of the
\* loop: an iteration in progress is not aborted (after an acknowledged POST
\* it still writes the pointer), no iteration begins once the flag is set,
\* and, its calls returning, run() ends once stop() has been called.
C20_StopEndsRunAtLoopTop ==
    /\ [][StopOnlySetsFlag]_vars
    /\ [][ExitOnlyAtLoopTop]_vars
    /\ [][NoIterationAfterStop]_vars
    /\ [][PointerWriteAfterPost]_vars
    /\ (stopped ~> (Terminated \/ ~stopped))

\* stop() was called and run() has ended at the loop top, after an iteration
\* that POSTed and wrote the pointer.
C20_Witness ==
    /\ stopped
    /\ pc = "done"
    /\ JustPosted
    /\ effects = EffectOrder


(***************************************************************************)
(* Properties of the Merkle tree.                                          *)
(***************************************************************************)
\* An update has been applied: the tree it produced, the tree it was
\* applied to, and all the leaf indices, as a list.
Updated == Len(batches) >= 2

NewRoot == batches[Len(batches)].root_after

OldRoot == batches[batches[Len(batches)].previous_batch_index].root_after

AllIndices == [j \in 1..Pow2(tree_height) |-> j - 1]

\* The leaves of the tree with the given root, read with get_leaves.
leaves_of(root) ==
    get_leaves(merkle_storage, root, tree_height, AllIndices, "order_state")


\* A mapping index -> leaf with the modifications written over it one after
\* the other, in list order.
RECURSIVE overridden(_, _)
overridden(leaves, mods) ==
    IF Len(mods) = 0
    THEN leaves
    ELSE overridden((mods[1][1] :> mods[1][2]) @@ leaves, Tail(mods))

\* C21: the leaves get_leaves reads from the updated tree, over all indices,
\* are the leaves of the tree the update was applied to with the
\* modifications written over them in list order: a repeated index has the
\* value of its last occurrence, an index that does not occur keeps its leaf.
C21_UpdateOverridesLeaves ==
    Updated =>
        /\ leaves_of(NewRoot).ok
        /\ leaves_of(OldRoot).ok
        /\ leaves_of(NewRoot).leaves = overridden(leaves_of(OldRoot).leaves, applied)

\* An update of a tree of height 2 that names one index twice, with
\* different leaves, and leaves another index out.
C21_Witness ==
    /\ Updated
    /\ tree_height = 2
    /\ \E i, j \in 1..Len(applied) :
          i < j /\ applied[i][1] = applied[j][1] /\ applied[i][2] # applied[j][2]
    /\ \E x \in TreeIndices(tree_height) :
          \A i \in 1..Len(applied) : applied[i][1] # x
    /\ leaves_of(NewRoot).leaves # leaves_of(OldRoot).leaves


\* The rearrangements of a modification list that keep the entries of one
\* index in their order.
StablePermutations(mods) ==
    LET n == Len(mods)
        orders == {f \in [1..n -> 1..n] : \A a, b \in 1..n : a # b => f[a] # f[b]}
        stable(f) == \A a, b \in 1..n :
                         (a < b /\ mods[f[a]][1] = mods[f[b]][1]) => f[a] < f[b]
    IN  {[k \in 1..n |-> mods[f[k]]] : f \in {g \in orders : stable(g)}}

\* The list with, for every index, only its last entry left.
RECURSIVE dedup_last_wins(_)
dedup_last_wins(mods) ==
    IF Len(mods) = 0
    THEN <<>>
    ELSE IF \E j \in 2..Len(mods) : mods[j][1] = mods[1][1]
    THEN dedup_last_wins(Tail(mods))
    ELSE <<mods[1]>> \o dedup_last_wins(Tail(mods))

\* The root update gives for the tree the last update was applied to.
root_for(mods) == update(merkle_storage, OldRoot, tree_height, mods).root

\* C22: update gives the same root for every rearrangement of the
\* modification list that keeps the entries of one index in their order, and
\* for the list reduced to the last entry of every index.
C22_UpdateOrderIndependent ==
    Updated =>
        /\ root_for(applied) = NewRoot
        /\ \A mods \in StablePermutations(applied) : root_for(mods) = NewRoot
        /\ root_for(dedup_last_wins(applied)) = NewRoot

\* An update of three modifications, two of them of one index, which has
\* other arrangements and changes the tree.
C22_Witness ==
    /\ Updated
    /\ tree_height = 2
    /\ Len(applied) = 3
    /\ Len(dedup_last_wins(applied)) = 2
    /\ Cardinality(StablePermutations(applied)) > 1
    /\ NewRoot # OldRoot


\* The roots of the trees built so far.
Roots == {batches[k].root_after : k \in 1..Len(batches)}

\* The authentication path of leaf i of the tree with the given root.
path_of(root, i) == get_authentication_path(merkle_storage, root, tree_height, i)

\* The digest of leaf i of the tree with the given root.
leaf_hash(root, i) == Fact_hash(leaves_of(root).leaves[i])

\* C23: for every tree built by empty_tree and updates, and every leaf index
\* i, verify_path accepts the root, i, the digest of leaf i and the path
\* get_authentication_path(i) returns.
C23_PathRoundTrip ==
    \A root \in Roots, i \in TreeIndices(tree_height) :
        /\ path_of(root, i).ok
        /\ leaves_of(root).ok
        /\ verify_path(root, i, leaf_hash(root, i), path_of(root, i).path)

\* Trees of height 2 have been built, one of them with two different
\* siblings on a path.
C23_Witness ==
    /\ tree_height = 2
    /\ Len(batches) = 3
    /\ \E root \in Roots, i \in TreeIndices(tree_height) :
          /\ Len(path_of(root, i).path) = 2
          /\ path_of(root, i).path[1] # empty_tree_roots(1, empty_leaf)[1]
          /\ path_of(root, i).path[2] # empty_tree_roots(1, empty_leaf)[2]


\* Digests a verifier may be handed as the value: the digests of the leaves,
\* the roots of the trees built, and the nodes on the paths of their leaves.
Digests ==
    {Fact_hash(leaf) : leaf \in TreeLeaves} \cup Roots \cup
    UNION {{path_of(root, i).path[k] : k \in 1..Len(path_of(root, i).path)} :
               root \in Roots, i \in TreeIndices(tree_height)}

\* C24: with the path get_authentication_path(i) returns for a tree,
\* verify_path rejects, under that tree's root, every value other than the
\* digest of its leaf i, and rejects that digest under the root of every
\* tree whose leaf i is another one.
C24_PathSound ==
    \A root \in Roots, i \in TreeIndices(tree_height) :
        LET path == path_of(root, i).path
        IN  /\ \A v \in Digests :
                   v # leaf_hash(root, i) => ~verify_path(root, i, v, path)
            /\ \A other \in Roots :
                   leaves_of(other).leaves[i] # leaves_of(root).leaves[i] =>
                       ~verify_path(other, i, leaf_hash(root, i), path)

\* Two trees of height 2 have been built that differ in a leaf, one of them
\* by an update of the other.
C24_Witness ==
    /\ Updated
    /\ tree_height = 2
    /\ \E i \in TreeIndices(tree_height) :
          /\ leaves_of(NewRoot).leaves[i] # leaves_of(OldRoot).leaves[i]
          /\ verify_path(NewRoot, i, leaf_hash(NewRoot, i), path_of(NewRoot, i).path)
          /\ ~verify_path(OldRoot, i, leaf_hash(NewRoot, i), path_of(NewRoot, i).path)


\* The empty leaves empty_tree_roots is asked about.
EmptyLeaves == TreeLeaves \cup {VaultStateFact_empty}

\* C25: empty_tree_roots(max_height, leaf) has max_height + 1 elements;
\* element i is the root of empty_tree(i, leaf), element 0 is the digest of
\* the leaf and element i + 1 is the hash of element i with itself.  In
\* particular the element at the height of the empty tree built in the
\* store is that tree's root.
C25_EmptyTreeRoots ==
    /\ \A max_height \in 0..(TreeHeight + 1), leaf \in EmptyLeaves :
          LET roots == empty_tree_roots(max_height, leaf)
          IN  /\ Len(roots) = max_height + 1
              /\ roots[1] = Fact_hash(leaf)
              /\ \A i \in 0..max_height : roots[i + 1] = empty_tree(i, leaf).root
              /\ \A i \in 0..(max_height - 1) :
                     roots[i + 2] = hash_func(roots[i + 1], roots[i + 1])
    /\ batches # <<>> =>
          batches[1].root_after =
              empty_tree_roots(tree_height, empty_leaf)[tree_height + 1]

\* The empty tree of height 2 has been built in the store.
C25_Witness ==
    /\ Len(batches) = 1
    /\ tree_height = 2
    /\ has_children(merkle_storage, batches[1].root_after)
    /\ batches[1].root_after = empty_tree_roots(2, empty_leaf)[3]


\* The leaves of the tree with the given root as read from the store db.
leaves_in(db, root) == get_leaves(db, root, tree_height, AllIndices, "order_state")

\* C26: a tree is not changed by later updates on the same store, whichever
\* tree they are applied to: every tree built keeps its root and get_leaves
\* reads from it the leaves it read before, and any earlier root can still
\* be updated.
C26_TreesImmutable ==
    [][\A k \in 1..Len(batches) :
           /\ Len(batches') >= k
           /\ batches'[k] = batches[k]
           /\ leaves_in(merkle_storage, batches[k].root_after).ok
           /\ leaves_in(merkle_storage', batches[k].root_after) =
                  leaves_in(merkle_storage, batches[k].root_after)
           /\ update(merkle_storage', batches[k].root_after, tree_height,
                     applied').ok]_vars

\* Two updates have been applied to the same tree, giving three different
\* trees.
C26_Witness ==
    /\ Len(batches) = 3
    /\ tree_height = 2
    /\ batches[2].previous_batch_index = 1
    /\ batches[3].previous_batch_index = 1
    /\ Cardinality(Roots) = 3


\* The indices the last update names.
Touched == {applied[j][1] : j \in 1..Len(applied)}

\* All the nodes of the tree with the given root, as dfs yields them.
nodes_of(root) == dfs(merkle_storage, root, tree_height, {})

\* The leaf indices below a node that dfs reports (its 1-based array index
\* and its height).
covered(node) ==
    LET first == (node.index - Pow2(tree_height - node.height)) * Pow2(node.height)
    IN  first..(first + Pow2(node.height) - 1)

\* C27: after an update, every subtree that holds no index of the
\* modification list has the digest it had in the tree the update was
\* applied to, and the leaves that differ are at indices of the list.
C27_UntouchedSubtreesShared ==
    Updated =>
        LET new == nodes_of(NewRoot)
            old == nodes_of(OldRoot)
        IN  /\ new.ok /\ old.ok
            /\ Len(new.nodes) = Len(old.nodes)
            /\ \A j \in 1..Len(new.nodes) :
                   /\ new.nodes[j].index = old.nodes[j].index
                   /\ covered(new.nodes[j]) \cap Touched = {} =>
                          new.nodes[j].root = old.nodes[j].root
            /\ \A i \in TreeIndices(tree_height) :
                   leaves_of(NewRoot).leaves[i] # leaves_of(OldRoot).leaves[i] =>
                       i \in Touched

\* An update of a tree of height 2 that changes a leaf of the left half and
\* names no index of the right half.
C27_Witness ==
    /\ Updated
    /\ tree_height = 2
    /\ Touched # {}
    /\ Touched \subseteq {0, 1}
    /\ NewRoot # OldRoot
    /\ get_children(merkle_storage, NewRoot).right =
           get_children(merkle_storage, OldRoot).right
    /\ get_children(merkle_storage, NewRoot).right # empty_tree_roots(1, empty_leaf)[2]


\* The digests of all the nodes of the tree with the given root.
node_digests(root) ==
    {nodes_of(root).nodes[j].root : j \in 1..Len(nodes_of(root).nodes)}

\* The exclude sets dfs is called with: none, the roots of the empty trees
\* (as in the docstring of dfs), and each single node of the tree.
ExcludeSets(root) ==
    {{}, {empty_tree_roots(tree_height, empty_leaf)[k] : k \in 1..(tree_height + 1)}}
        \cup {{d} : d \in node_digests(root)}

\* Where a node stands in pre-order, from its 1-based array index and its
\* height: the leftmost leaf position below it, then its depth.
leftmost(node) == node.index * Pow2(node.height)

before(a, b) ==
    \/ leftmost(a) < leftmost(b)
    \/ leftmost(a) = leftmost(b) /\ a.height > b.height

\* The node dfs should report for the child of a node: offset 0 is the left
\* child, 1 the right one.
child(node, offset) ==
    [index |-> 2 * node.index + offset,
     root |-> IF offset = 0 THEN get_children(merkle_storage, node.root).left
              ELSE get_children(merkle_storage, node.root).right,
     height |-> node.height - 1]

\* What dfs yields for a tree and an exclude set is in pre-order with the
\* root at index 1 and the children of n at 2n and 2n + 1, holds both
\* children of every node that is neither a leaf nor excluded, and holds
\* nothing else.
PreOrderWalk(root, exclude_set) ==
    LET walk == dfs(merkle_storage, root, tree_height, exclude_set)
        n == Len(walk.nodes)
        inner(node) == node.height > 0 /\ node.root \notin exclude_set
    IN  /\ walk.ok
        /\ walk.nodes[1] = [index |-> 1, root |-> root, height |-> tree_height]
        /\ \A a, b \in 1..n : a < b => before(walk.nodes[a], walk.nodes[b])
        /\ \A a \in 1..n :
               inner(walk.nodes[a]) =>
                   /\ walk.nodes[a + 1] = child(walk.nodes[a], 0)
                   /\ \E b \in (a + 2)..n : walk.nodes[b] = child(walk.nodes[a], 1)
        /\ \A b \in 2..n :
               \E a \in 1..(b - 1), offset \in {0, 1} :
                   inner(walk.nodes[a]) /\ walk.nodes[b] = child(walk.nodes[a], offset)

\* C28: dfs(exclude_set) yields the nodes in pre-order with 1-based array
\* indices; a node whose digest is in exclude_set is yielded but nothing
\* below it is, and a leaf is yielded without its children being read.
C28_DfsPreOrder ==
    \A root \in Roots : \A exclude_set \in ExcludeSets(root) :
        PreOrderWalk(root, exclude_set)

\* A tree of height 2 with one leaf that is not empty: with the roots of the
\* empty trees excluded, dfs yields five of its seven nodes.
C28_Witness ==
    /\ Updated
    /\ tree_height = 2
    /\ Len(dfs(merkle_storage, NewRoot, tree_height,
               {empty_tree_roots(tree_height, empty_leaf)[k] :
                    k \in 1..(tree_height + 1)}).nodes) = 5
    /\ Len(nodes_of(NewRoot).nodes) = 7


\* n XOR 1, and n >> k.
xor_one(n) == IF n % 2 = 0 THEN n + 1 ELSE n - 1

shift_right(n, k) == n \div Pow2(k)

\* The digest of the node that dfs reports at the 1-based array index n.
digest_at(root, n) ==
    LET nodes == nodes_of(root).nodes
    IN  nodes[CHOOSE j \in 1..Len(nodes) : nodes[j].index = n].root

\* C29: get_authentication_path(i) on a tree of height h has h elements, from
\* the sibling of the leaf up to the sibling of the root's child: element k
\* (counted from 0) is the digest of the node dfs reports at index
\* ((2^h + i) >> k) XOR 1.
C29_PathIsSiblingsBottomUp ==
    \A root \in Roots, i \in TreeIndices(tree_height) :
        /\ path_of(root, i).ok
        /\ Len(path_of(root, i).path) = tree_height
        /\ \A k \in 0..(tree_height - 1) :
               path_of(root, i).path[k + 1] =
                   digest_at(root, xor_one(shift_right(Pow2(tree_height) + i, k)))

\* A tree of height 2 in which the leaf at index 1 alone is not empty: the
\* path of leaf 0 has a sibling leaf other than leaf 0 itself, and an upper
\* sibling other than the node above leaf 0.
C29_Witness ==
    /\ Updated
    /\ tree_height = 2
    /\ leaves_of(NewRoot).leaves[1] # empty_leaf
    /\ \A i \in {0, 2, 3} : leaves_of(NewRoot).leaves[i] = empty_leaf
    /\ path_of(NewRoot, 0).path =
           <<Fact_hash(leaves_of(NewRoot).leaves[1]),
             empty_tree_roots(1, empty_leaf)[2]>>


\* Every fact in the store hashes to the digest in its key.
ContentAddressed(db) ==
    \A key \in DOMAIN db :
        /\ key[1] \in {"merkle_node", "vault_state", "order_state"}
        /\ Fact_hash(deserialize(key[1], db[key])) = key[2]

\* The step removes no fact and changes the value of none.
FactsKept ==
    \A key \in DOMAIN merkle_storage :
        /\ key \in DOMAIN merkle_storage'
        /\ merkle_storage'[key] = merkle_storage[key]

\* C30: facts are content-addressed and immutable: in every state of the
\* fact store, which is written only through Fact.set_fact, the value under
\* prefix ':' digest hashes to that digest, and no step, a write to an
\* existing fact key included, changes the value a key holds.
C30_FactsContentAddressedAndImmutable ==
    [](ContentAddressed(merkle_storage)) /\ [][FactsKept]_vars

\* Start-up ran a second time after a crash that came before the pointer was
\* written: the facts of both empty trees (nodes, the empty vault leaf, the
\* empty order leaf) were stored, and have just been written again.
C30_Witness ==
    /\ pc = "init_info"
    /\ crashes >= 1
    /\ has_value(storage, committee_batch_info_key(-1))
    /\ DOMAIN set_fact(VaultStateFact_empty) \subseteq DOMAIN merkle_storage
    /\ DOMAIN set_fact(OrderStateFact(0)) \subseteq DOMAIN merkle_storage
    /\ \E key \in DOMAIN merkle_storage : key[1] = "merkle_node"


\* An update naming prev as its predecessor, with no modification.
update_from(prev) ==
    [vaults |-> <<>>, orders |-> <<>>, vault_root |-> hex(WrongRoot),
     order_root |-> hex(WrongRoot), prev_batch_id |-> prev]

\* C37: the persisted pointer covers the history: committee_batch_info:{b}
\* is stored for every b with -1 <= b < committee_next_batch_id, so an
\* update whose prev_batch_id is below the pointer finds its predecessor.
C37_PointerCoversHistory ==
    \A b \in -1..(persisted_pointer - 1) :
        /\ has_batch_info(b)
        /\ received(storage, merkle_storage, update_from(b), "True").prev_found
        /\ derive(storage, merkle_storage, update_from(b), validate_orders).status
               # "Prev batch not found"

\* The pointer stands behind two derived batches after a crash and a failed
\* store write, and the stored record of batch 1 was derived from batch 0.
C37_Witness ==
    /\ persisted_pointer = 2
    /\ crashes >= 1
    /\ faults >= 1
    /\ has_batch_info(1)
    /\ has_value(prev_of, 1)
    /\ get_value(prev_of, 1) = 0


\* The digest is that of an order tree of height h: order leaves hashed
\* pairwise h times.
RECURSIVE in_order_tree(_, _)
in_order_tree(digest, h) ==
    IF h = 0
    THEN digest \in {Fact_hash(OrderStateFact(n)) : n \in 0..1}
    ELSE /\ Len(digest) = 2
         /\ in_order_tree(digest[1], h - 1)
         /\ in_order_tree(digest[2], h - 1)

\* The fact keys the step adds to the Merkle store.
added_facts == DOMAIN merkle_storage' \ DOMAIN merkle_storage

\* C38: with validate_orders false an iteration adds no order_state fact and
\* no node of an order tree to the Merkle store, only vault-tree facts; the
\* orders_root of the stored CommitteeBatchInfo need not have a stored node.
C38_NoOrderFactsWhenNotValidating ==
    [][(~validate_orders /\ pc # "init") =>
           \A key \in added_facts :
               /\ key[1] \in {"vault_state", "merkle_node"}
               /\ key[1] = "merkle_node" =>
                      \A h \in 1..ORDERS_MERKLE_HEIGHT : ~in_order_tree(key[2], h)]_vars

\* Batch 0 was derived without validating orders from an update that changes
\* a vault and an order: the vault leaf is stored, and the recorded
\* orders_root is an order-tree root with no node fact behind it.
C38_Witness ==
    /\ ~validate_orders
    /\ has_batch_info(0)
    /\ has_value(merkle_storage, db_key("vault_state", Fact_hash(VaultStateFact(1, 1, 1))))
    /\ in_order_tree(stored_batch_info(0).orders_root, ORDERS_MERKLE_HEIGHT)
    /\ stored_batch_info(0).orders_root # stored_batch_info(-1).orders_root
    /\ ~has_children(merkle_storage, stored_batch_info(0).orders_root)


\* Every digest reachable from a node of the given height has its fact in
\* db: a merkle_node fact for an internal node, a leaf fact for a leaf.
RECURSIVE closed(_, _, _)
closed(db, digest, h) ==
    IF h = 0
    THEN has_value(db, db_key("order_state", digest))
    ELSE /\ has_children(db, digest)
         /\ closed(db, get_children(db, digest).left, h - 1)
         /\ closed(db, get_children(db, digest).right, h - 1)

\* C39: after any sequence of empty_tree and update calls on one store, every
\* digest reachable from a returned root has its fact in the store, and
\* get_children, get_leaves, get_authentication_path and dfs on a returned
\* root do not fail with a missing node or leaf.
C39_ReachableFactsStored ==
    \A root \in Roots :
        /\ closed(merkle_storage, root, tree_height)
        /\ tree_height > 0 => has_children(merkle_storage, root)
        /\ leaves_of(root).ok
        /\ nodes_of(root).ok
        /\ \A i \in TreeIndices(tree_height) : path_of(root, i).ok

\* Three different trees of height 2, the third one an update of the first.
C39_Witness ==
    /\ tree_height = 2
    /\ Len(batches) = 3
    /\ batches[3].previous_batch_index = 1
    /\ Cardinality(Roots) = 3


\* A read inside the scope of a key the overlay holds returns the value
\* written there and does not go to the underlying store.
ReadsOwnWrites ==
    /\ \A key \in DOMAIN overlay :
           /\ has_value(cache_view(merkle_storage, overlay), key)
           /\ get_value(cache_view(merkle_storage, overlay), key) = overlay[key]
    /\ (scope = "open" /\ scope' = "open") => backend_reads' \cap DOMAIN overlay = {}

\* Nothing reaches the underlying store while the scope stays open.
NoWriteBeforeExit ==
    (scope = "open" /\ scope' = "open") => merkle_storage' = merkle_storage

\* A successful exit leaves every buffered write in the underlying store.
FlushedOnSuccess ==
    (scope = "open" /\ scope' = "flushed") =>
        \A key \in DOMAIN overlay :
            /\ has_value(merkle_storage', key)
            /\ get_value(merkle_storage', key) = overlay[key]

\* An exit by error leaves the underlying store as it was.
DiscardedOnError ==
    (scope = "open" /\ scope' = "discarded") => merkle_storage' = merkle_storage

\* C31: inside a deferred-write scope a read of a key written earlier in the
\* scope returns the written value without a read of the underlying store;
\* no write reaches the underlying store before the scope is left; a
\* successful exit puts every buffered write into the underlying store and
\* an exit by error puts none.
C31_DeferredWriteScope ==
    [][ReadsOwnWrites /\ NoWriteBeforeExit /\ FlushedOnSuccess /\ DiscardedOnError]_vars

\* In the second scope, opened after the first one wrote nothing durable, an
\* empty tree was built and then updated: the update read the nodes of the
\* empty tree from the overlay, no read went to the underlying store, and
\* the underlying store is still empty.
C31_Witness ==
    /\ scope = "open"
    /\ scopes = 2
    /\ flushed_roots = {}
    /\ Cardinality(scope_roots) = 2
    /\ merkle_storage = EmptyStorage
    /\ overlay # EmptyStorage
    /\ backend_reads = {}


\* The concurrent update has returned.
Finished == race # <<>> /\ tasks[1].pc = "done"

\* What update() gives for the same store, tree and list when its recursion
\* is run one call after the other.
sequential == update(race[1].store, race[1].root, tree_height, race[1].modifications)

\* The digest has a fact in the store, as a node or as a leaf.
stored(digest) ==
    \/ has_value(merkle_storage, db_key("merkle_node", digest))
    \/ has_value(merkle_storage, db_key("order_state", digest))

\* C35: the parallel recursion of update is race-free: however the reads,
\* hash calls and writes of the two halves interleave, the root returned and
\* the facts stored at the end are those of the sequential execution, and at
\* every moment a stored node has both of its children's facts stored, that
\* is, a node's fact is written only after its children's.
C35_ParallelUpdateRaceFree ==
    /\ Finished =>
           /\ sequential.ok
           /\ tasks[1].new_root = sequential.root
           /\ merkle_storage = mset(race[1].store, sequential.writes)
    /\ \A key \in DOMAIN merkle_storage :
           key[1] = "merkle_node" =>
               /\ stored(get_children(merkle_storage, key[2]).left)
               /\ stored(get_children(merkle_storage, key[2]).right)

\* An update of a tree of height 2 that changed a leaf in each half has
\* returned: both halves were updated by gathered calls.
C35_Witness ==
    /\ Finished
    /\ tree_height = 2
    /\ tasks[2].pc = "done"
    /\ tasks[3].pc = "done"
    /\ tasks[2].new_root # tasks[2].root
    /\ tasks[3].new_root # tasks[3].root

(***************************************************************************)
(* C34: a vault leaf with balance 0 is the empty vault.  Every entry of    *)
(* the balances file with amount 0 makes a leaf whose key and token are 0  *)
(* and whose hash is H(H(0,0),0), the hash the tool puts at that leaf;     *)
(* when the tool returns before and after an entry with amount 0 was added *)
(* or removed, its root is the same; and when the tool and                 *)
(* MerkleTree.update from the empty vault tree both return for the         *)
(* entries of the file, the encoding of the tool's root is update's root.  *)
(***************************************************************************)
\* The modifications the entries of the balances file make to a vault tree.
vault_modifications ==
    [j \in 1..Len(vaults_data) |->
        <<vaults_data[j].vault_id,
          VaultStateFact(vaults_data[j].stark_key, vaults_data[j].token_id,
                         vaults_data[j].amount)>>]

\* MerkleTree.update of the empty vault tree by those modifications.
updated_from_empty ==
    LET e == empty_tree(tree_height, VaultStateFact_empty)
    IN  update(e.writes, e.root, tree_height, vault_modifications)

ZeroIsEmptyLeaf ==
    \A j \in 1..Len(vaults_data) :
        vaults_data[j].amount = 0 =>
            LET leaf == vault_modifications[j][2]
            IN  /\ leaf.stark_key = 0 /\ leaf.token = 0
                /\ Fact_hash(leaf) = hash_func(hash_func(to_bytes(0), to_bytes(0)),
                                               to_bytes(0))
                /\ Fact_hash(leaf) = element_to_bytes(calc_zero_nodes(0)[1])

ZeroEntriesKeepRoot ==
    (edit # "none" /\ merkle_root[1].ok /\ prior_root[1].ok) =>
        merkle_root[1].root = prior_root[1].root

SameRootAsUpdate ==
    (merkle_root[1].ok /\ updated_from_empty.ok) =>
        element_to_bytes(merkle_root[1].root) = updated_from_empty.root

C34_ZeroBalanceIsEmptyVault ==
    merkle_root # <<>> =>
        ZeroIsEmptyLeaf /\ ZeroEntriesKeepRoot /\ SameRootAsUpdate

\* An entry with amount 0 was added beside a vault that holds a balance; the
\* tool returned both times and update returns for the same entries.
C34_Witness ==
    /\ edit = "added"
    /\ merkle_root[1].ok /\ prior_root[1].ok
    /\ updated_from_empty.ok
    /\ \E i, j \in 1..Len(vaults_data) :
          /\ vaults_data[i].amount = 0 /\ vaults_data[i].stark_key # 0
          /\ vaults_data[j].amount # 0


(***************************************************************************)
(* CachedStorage on its own: an LRUCache of max_size entries in front of a *)
(* store whose set_value may raise.                                        *)
(***************************************************************************)
\* key in self.cache
lru_contains(c, key) == \E i \in 1..Len(c) : c[i][1] = key

\* The value the LRUCache holds for a key it contains.
lru_value(c, key) == c[CHOOSE i \in 1..Len(c) : c[i][1] = key][2]

\* self.cache[key] read: the key becomes the most recently used.
lru_getitem(c, key) ==
    SelectSeq(c, LAMBDA e : e[1] # key) \o <<<<key, lru_value(c, key)>>>>

\* self.cache[key] = value: a new key evicts the least recently used entry
\* of a full cache; the key becomes the most recently used.
lru_setitem(c, key, value, max_size) ==
    LET others == SelectSeq(c, LAMBDA e : e[1] # key)
        kept == IF ~lru_contains(c, key) /\ Len(c) >= max_size
                THEN Tail(c)
                ELSE others
    IN  kept \o <<<<key, value>>>>

CacheKeySet == 1..CacheKeys
CacheValueSet == 1..CacheValues

\* CachedStorage.set_value, the underlying set_value returning.
CachedSetValue ==
    \E key \in CacheKeySet, value \in CacheValueSet :
        /\ cache' = lru_setitem(cache, key, value, CacheMaxSize)
        /\ underlying' = set_value(underlying, key, value)
        /\ returned' = [call |-> "set_value", key |-> key, outcome |-> "returned",
                        value |-> <<>>]
        /\ UNCHANGED <<committee, beside_caching>>

\* CachedStorage.set_value, the underlying set_value raising: the cache entry
\* was made on the line before the call.
CachedSetValueRaises ==
    \E key \in CacheKeySet, value \in CacheValueSet :
        /\ cache' = lru_setitem(cache, key, value, CacheMaxSize)
        /\ returned' = [call |-> "set_value", key |-> key, outcome |-> "raised",
                        value |-> <<>>]
        /\ UNCHANGED <<underlying, committee, beside_caching>>

\* CachedStorage.get_value
CachedGetValue ==
    \E key \in CacheKeySet :
        /\ IF lru_contains(cache, key)
           THEN /\ cache' = lru_getitem(cache, key)
                /\ returned' = [call |-> "get_value", key |-> key,
                                outcome |-> "returned",
                                value |-> <<lru_value(cache, key)>>]
           ELSE IF ~has_value(underlying, key)
           THEN /\ cache' = cache
                /\ returned' = [call |-> "get_value", key |-> key,
                                outcome |-> "returned", value |-> <<>>]
           ELSE /\ cache' = lru_setitem(cache, key, get_value(underlying, key),
                                        CacheMaxSize)
                /\ returned' = [call |-> "get_value", key |-> key,
                                outcome |-> "returned",
                                value |-> <<get_value(underlying, key)>>]
        /\ UNCHANGED <<underlying, committee, beside_caching>>

\* CachedStorage.del_value raises NotImplementedError.
CachedDelValue ==
    \E key \in CacheKeySet :
        /\ returned' = [call |-> "del_value", key |-> key, outcome |-> "raised",
                        value |-> <<>>]
        /\ UNCHANGED <<cache, underlying, committee, beside_caching>>

CacheNext ==
    CachedSetValue \/ CachedSetValueRaises \/ CachedGetValue \/ CachedDelValue

CacheSpec == TreeInit /\ [][CacheNext]_vars

\* Every cache entry is the value the underlying store holds for its key.
CacheEntriesHeld ==
    \A i \in 1..Len(cache) :
        /\ has_value(underlying, cache[i][1])
        /\ get_value(underlying, cache[i][1]) = cache[i][2]

\* get_value returned no value the underlying store does not hold.
ReturnedValueHeld ==
    (returned # <<>> /\ returned.call = "get_value" /\ returned.value # <<>>) =>
        /\ has_value(underlying, returned.key)
        /\ get_value(underlying, returned.key) = returned.value[1]

\* A get_value that returned None was for a key the store does not hold and
\* left the key out of the cache.
MissCachesNothing ==
    (returned # <<>> /\ returned.call = "get_value" /\ returned.value = <<>>) =>
        /\ ~has_value(underlying, returned.key)
        /\ ~lru_contains(cache, returned.key)

\* The cache never holds more than max_size entries, one per key.
CacheWithinSize ==
    /\ Len(cache) <= CacheMaxSize
    /\ \A i, j \in 1..Len(cache) : cache[i][1] = cache[j][1] => i = j

(***************************************************************************)
(* C40: CachedStorage coherence.  In every reachable state every cache     *)
(* entry equals the value the underlying store holds for that key, what    *)
(* get_value returned is a value the underlying store holds, and a         *)
(* get_value of an absent key returned None and cached nothing.            *)
(***************************************************************************)
C40_CachedStorageCoherent ==
    CacheEntriesHeld /\ ReturnedValueHeld /\ MissCachesNothing


(***************************************************************************)
(* The signer: sign and verify over the curve                              *)
(* y^2 = x^3 + ALPHA x + BETA (mod FIELD_PRIME).  The parameter file is    *)
(* replaced by a curve of the same shape at small scale: a prime field, a  *)
(* group of prime order with 2^N_ELEMENT_BITS_ECDSA < EC_ORDER <           *)
(* FIELD_PRIME, a generator and a shift point.                             *)
(***************************************************************************)
FIELD_PRIME == 13
ALPHA == 8
BETA == 6
EC_ORDER == 11
SHIFT_POINT == <<8, 7>>
MINUS_SHIFT_POINT == <<SHIFT_POINT[1], FIELD_PRIME - SHIFT_POINT[2]>>
EC_GEN == <<6, 7>>

\* math.floor(math.log(FIELD_PRIME, 2))
N_ELEMENT_BITS_ECDSA ==
    CHOOSE n \in 0..FIELD_PRIME : Pow2(n) <= FIELD_PRIME /\ FIELD_PRIME < Pow2(n + 1)

\* The curve equation, as verify asserts it of a public key.
on_curve(point) ==
    (point[2] * point[2]) % FIELD_PRIME =
        (point[1] * point[1] * point[1] + ALPHA * point[1] + BETA) % FIELD_PRIME

\* What a computation that may fail an assertion gives: a point, or ok FALSE
\* for the AssertionError.
AssertionError == [ok |-> FALSE, point |-> <<0, 0>>]
Point(point) == [ok |-> TRUE, point |-> point]

\* div_mod(n, m, p): the x with x * m = n (mod p), for m prime to p.
div_mod(n, m, p) == CHOOSE x \in 0..(p - 1) : (x * m) % p = n % p

\* ec_add(point1, point2, p): the sum of two points with different x
\* coordinates; equal x coordinates fail the assertion.
ec_add(point1, point2, p) ==
    IF (point1[1] + p - point2[1]) % p = 0
    THEN AssertionError
    ELSE LET m == div_mod(point1[2] + p - point2[2], point1[1] + p - point2[1], p)
             x == (m * m + 2 * p - point1[1] - point2[1]) % p
             y == (m * (point1[1] + p - x) + p - point1[2]) % p
         IN  Point(<<x, y>>)

\* ec_double(point, alpha, p); a point with y = 0 fails the assertion.
ec_double(point, alpha, p) ==
    IF point[2] % p = 0
    THEN AssertionError
    ELSE LET m == div_mod(3 * point[1] * point[1] + alpha, 2 * point[2], p)
             x == (m * m + 2 * p - 2 * point[1]) % p
             y == (m * (point[1] + p - x) + p - point[2]) % p
         IN  Point(<<x, y>>)

\* ec_mult(m, point, alpha, p) for 0 < m < EC_ORDER: double-and-add, which
\* cannot fail in a group of prime order.
RECURSIVE ec_mult(_, _, _, _)
ec_mult(m, point, alpha, p) ==
    IF m = 1
    THEN point
    ELSE IF m % 2 = 0
    THEN ec_mult(m \div 2, ec_double(point, alpha, p).point, alpha, p)
    ELSE ec_add(ec_mult(m - 1, point, alpha, p), point, p).point

\* private_key_to_ec_point_on_stark_curve
private_key_to_ec_point_on_stark_curve(priv_key) ==
    ec_mult(priv_key, EC_GEN, ALPHA, FIELD_PRIME)

\* One pass of the loop of sign with the k it drew: whether the pass
\* returns, and the (r, w) it returns.
sign_with(msg_hash, priv_key, k) ==
    LET r == ec_mult(k, EC_GEN, ALPHA, FIELD_PRIME)[1]
        w == div_mod(k, msg_hash + r * priv_key, EC_ORDER)
    IN  IF ~(1 <= r /\ r < Pow2(N_ELEMENT_BITS_ECDSA))
        THEN [returns |-> FALSE, r |-> r, w |-> 0]
        ELSE IF (msg_hash + r * priv_key) % EC_ORDER = 0
        THEN [returns |-> FALSE, r |-> r, w |-> 0]
        ELSE IF ~(1 <= w /\ w < Pow2(N_ELEMENT_BITS_ECDSA))
        THEN [returns |-> FALSE, r |-> r, w |-> w]
        ELSE [returns |-> TRUE, r |-> r, w |-> w]

\* The loop of mimic_ec_mult_air with `steps` passes left.
RECURSIVE mimic_ec_mult_air_loop(_, _, _, _)
mimic_ec_mult_air_loop(m, point, partial_sum, steps) ==
    IF steps = 0
    THEN IF m # 0 THEN AssertionError ELSE Point(partial_sum)
    ELSE IF partial_sum[1] = point[1]
    THEN AssertionError
    ELSE LET added == IF m % 2 = 1
                      THEN ec_add(partial_sum, point, FIELD_PRIME)
                      ELSE Point(partial_sum)
             doubled == ec_double(point, ALPHA, FIELD_PRIME)
         IN  IF ~added.ok \/ ~doubled.ok
             THEN AssertionError
             ELSE mimic_ec_mult_air_loop(m \div 2, doubled.point, added.point,
                                         steps - 1)

\* mimic_ec_mult_air(m, point, shift_point) = m * point + shift_point
mimic_ec_mult_air(m, point, shift_point) ==
    IF ~(0 < m /\ m < Pow2(N_ELEMENT_BITS_ECDSA))
    THEN AssertionError
    ELSE mimic_ec_mult_air_loop(m, point, shift_point, N_ELEMENT_BITS_ECDSA)

\* The body of the try of verify: the point whose x coordinate is compared
\* with r, or the AssertionError of one of its steps.
signature_point(msg_hash, r, w, public_key) ==
    LET zG == mimic_ec_mult_air(msg_hash, EC_GEN, MINUS_SHIFT_POINT)
        rQ == mimic_ec_mult_air(r, public_key, SHIFT_POINT)
        sum == ec_add(zG.point, rQ.point, FIELD_PRIME)
        wB == mimic_ec_mult_air(w, sum.point, SHIFT_POINT)
    IN  IF ~zG.ok \/ ~rQ.ok
        THEN AssertionError
        ELSE IF ~sum.ok
        THEN AssertionError
        ELSE IF ~wB.ok
        THEN AssertionError
        ELSE ec_add(wB.point, MINUS_SHIFT_POINT, FIELD_PRIME)

\* What a call of verify gives: a truth value, or an exception.
Verdict(value) == [raised |-> FALSE, value |-> value]
Raises == [raised |-> TRUE, value |-> FALSE]

\* The assertions verify makes of msg_hash, r and w before anything else.
in_range(msg_hash, r, w) ==
    /\ 1 <= r /\ r < Pow2(N_ELEMENT_BITS_ECDSA)
    /\ 1 <= w /\ w < Pow2(N_ELEMENT_BITS_ECDSA)
    /\ 0 <= msg_hash /\ msg_hash < Pow2(N_ELEMENT_BITS_ECDSA)

\* verify with a public point, without the try around the computation.
verify_point_uncaught(msg_hash, r, w, public_key) ==
    IF ~in_range(msg_hash, r, w) \/ ~on_curve(public_key)
    THEN Raises
    ELSE LET x == signature_point(msg_hash, r, w, public_key)
         IN  IF ~x.ok THEN Raises ELSE Verdict(r = x.point[1])

\* verify(msg_hash, r, w, public_key) with the public key given as a point.
verify_point(msg_hash, r, w, public_key) ==
    IF ~in_range(msg_hash, r, w) \/ ~on_curve(public_key)
    THEN Raises
    ELSE LET x == signature_point(msg_hash, r, w, public_key)
         IN  IF ~x.ok THEN Verdict(FALSE) ELSE Verdict(r = x.point[1])

\* is_quad_residue(y_squared, FIELD_PRIME) of get_y_coordinate
is_quad_residue(n, p) == \E y \in 0..(p - 1) : (y * y) % p = n % p

\* sqrt_mod(y_squared, FIELD_PRIME): one of the two roots.
sqrt_mod(n, p) == CHOOSE y \in 0..(p - 1) : (y * y) % p = n % p

\* verify(msg_hash, r, w, public_key): a key <<x>> is the x coordinate alone,
\* a key <<x, y>> is the point.
verify(msg_hash, r, w, public_key) ==
    IF Len(public_key) = 2
    THEN verify_point(msg_hash, r, w, public_key)
    ELSE IF ~in_range(msg_hash, r, w)
    THEN Raises
    ELSE LET x == public_key[1]
             y_squared == (x * x * x + ALPHA * x + BETA) % FIELD_PRIME
             y == sqrt_mod(y_squared, FIELD_PRIME)
             first == verify_point(msg_hash, r, w, <<x, y>>)
             second == verify_point(msg_hash, r, w, <<x, (FIELD_PRIME - y) % FIELD_PRIME>>)
         IN  IF ~is_quad_residue(y_squared, FIELD_PRIME)
             THEN Verdict(FALSE)
             ELSE IF first.raised \/ first.value
             THEN first
             ELSE second

\* The inputs verify is called with: each number from 0 up to the first one
\* out of range, and as key a point of the curve, a point off it, or an x
\* coordinate.
SignedNumbers == 0..Pow2(N_ELEMENT_BITS_ECDSA)
CurvePoints ==
    {point \in (0..(FIELD_PRIME - 1)) \X (0..(FIELD_PRIME - 1)) : on_curve(point)}
OffCurvePoint == <<0, 0>>
PublicKeys ==
    CurvePoints \cup {OffCurvePoint} \cup {<<x>> : x \in 0..(FIELD_PRIME - 1)}

\* sign(msg_hash, priv_key): the loop ends with a k whose pass returns.  A
\* run looks at one call of sign, or at one call of verify on given inputs.
Sign ==
    /\ signature = <<>> /\ checked = <<>>
    /\ \E msg_hash \in 0..(Pow2(N_ELEMENT_BITS_ECDSA) - 1), priv_key \in 1..(EC_ORDER - 1),
       k \in 1..(EC_ORDER - 1) :
        LET pass == sign_with(msg_hash, priv_key, k)
        IN  /\ pass.returns
            /\ signature' = [msg_hash |-> msg_hash, priv_key |-> priv_key,
                             r |-> pass.r, w |-> pass.w]
    /\ UNCHANGED <<resigned, verified, checked, committee, beside_signing>>

\* sign called again with the arguments of the last call.
SignAgain ==
    /\ signature # <<>> /\ resigned = <<>>
    /\ \E k \in 1..(EC_ORDER - 1) :
          LET pass == sign_with(signature.msg_hash, signature.priv_key, k)
          IN  /\ pass.returns
              /\ resigned' = <<pass.r, pass.w>>
    /\ UNCHANGED <<signature, verified, checked, committee, beside_signing>>

\* verify of the last signature with the signer's public key, as a point and
\* as its x coordinate.
VerifySigned ==
    /\ signature # <<>>
    /\ LET public_key == private_key_to_ec_point_on_stark_curve(signature.priv_key)
       IN  verified' =
               [point |-> verify(signature.msg_hash, signature.r, signature.w,
                                 public_key),
                x_only |-> verify(signature.msg_hash, signature.r, signature.w,
                                  <<public_key[1]>>)]
    /\ UNCHANGED <<signature, resigned, checked, committee, beside_signing>>

\* verify called with given numbers and a given key.
Verify ==
    /\ signature = <<>> /\ checked = <<>>
    /\ \E msg_hash \in SignedNumbers, r \in SignedNumbers, w \in SignedNumbers,
          public_key \in PublicKeys :
           checked' = [msg_hash |-> msg_hash, r |-> r, w |-> w,
                       public_key |-> public_key,
                       result |-> verify(msg_hash, r, w, public_key)]
    /\ UNCHANGED <<signature, resigned, verified, committee, beside_signing>>

SignNext == Sign \/ SignAgain \/ VerifySigned \/ Verify

SignSpec == TreeInit /\ [][SignNext]_vars


\* The public point of the signer of the last signature.
signer_key == private_key_to_ec_point_on_stark_curve(signature.priv_key)

\* Whether the computation of verify on the last signature, with the
\* signer's public point, fails an assertion on its way.
signed_point ==
    signature_point(signature.msg_hash, signature.r, signature.w, signer_key)

(***************************************************************************)
(* C32: sign/verify round trip.  For every msg_hash in [0, 2^N), 0         *)
(* included, and every private key in (0, EC_ORDER), verify returns true   *)
(* for the (r, w) sign returned, with the public point and with its x      *)
(* coordinate alone.                                                       *)
(***************************************************************************)
C32_SignVerifyRoundTrip ==
    verified # <<>> =>
        /\ verified.point = Verdict(TRUE)
        /\ verified.x_only = Verdict(TRUE)

\* No signature of msg_hash = 0 verifies, whatever the key and the k drawn.
ZeroHashNeverVerifies ==
    (verified # <<>> /\ signature.msg_hash = 0) =>
        /\ verified.point = Verdict(FALSE)
        /\ verified.x_only = Verdict(FALSE)

\* A signature whose verification fails no assertion verifies.
VerifiesUnlessAssertion ==
    (verified # <<>> /\ signed_point.ok) =>
        /\ verified.point = Verdict(TRUE)
        /\ verified.x_only = Verdict(TRUE)

\* Some signature of a msg_hash other than 0 verifies both ways.
SomeRoundTrip ==
    /\ verified # <<>>
    /\ signature.msg_hash # 0
    /\ verified.point = Verdict(TRUE)
    /\ verified.x_only = Verdict(TRUE)

(***************************************************************************)
(* C33: signing is deterministic.  A second call of sign with the          *)
(* arguments of the first returns the same (r, w).                         *)
(***************************************************************************)
C33_SigningDeterministic ==
    resigned # <<>> => resigned = <<signature.r, signature.w>>

\* The right-hand side of the curve equation at x.
curve_rhs(x) == (x * x * x + ALPHA * x + BETA) % FIELD_PRIME

(***************************************************************************)
(* C36: verify never lets an internal failure escape.  Called with         *)
(* msg_hash, r and w in range and a public key on the curve (a point, or   *)
(* an x coordinate), verify returns and does not raise; it returns false   *)
(* when a step of its computation fails an assertion, and when the x       *)
(* coordinate it is given is that of no point of the curve.                *)
(***************************************************************************)
C36_VerifyInternalFailureIsFalse ==
    /\ (/\ checked # <<>>
        /\ in_range(checked.msg_hash, checked.r, checked.w)
        /\ Len(checked.public_key) = 2 => on_curve(checked.public_key)) =>
           /\ ~checked.result.raised
           /\ (/\ Len(checked.public_key) = 2
               /\ ~signature_point(checked.msg_hash, checked.r, checked.w,
                                   checked.public_key).ok) =>
                  checked.result = Verdict(FALSE)
           /\ (/\ Len(checked.public_key) = 1
               /\ ~is_quad_residue(curve_rhs(checked.public_key[1]), FIELD_PRIME)) =>
                  checked.result = Verdict(FALSE)
    /\ verified # <<>> =>
           /\ ~verified.point.raised
           /\ ~verified.x_only.raised
           /\ ~signed_point.ok => verified.point = Verdict(FALSE)

\* verify was called with numbers in range, a msg_hash other than 0 and a
\* point of the curve, a step of its computation failed an assertion, and
\* it returned false.
C36_Witness ==
    /\ checked # <<>>
    /\ in_range(checked.msg_hash, checked.r, checked.w)
    /\ checked.msg_hash # 0
    /\ Len(checked.public_key) = 2
    /\ on_curve(checked.public_key)
    /\ ~signature_point(checked.msg_hash, checked.r, checked.w,
                        checked.public_key).ok
    /\ checked.result = Verdict(FALSE)

\* verify raises on numbers out of range and on a point off the curve.
RaisesOutsideTheCase ==
    /\ checked # <<>>
    /\ checked.result.raised


====
